---- MODULE Spec2Model ----
(***************************************************************************)
(* Model of litep2p's connection-to-protocol multiplexing core:            *)
(*   - TransportContext::add_protocol          (src/src/new.rs)            *)
(*   - ProtocolSet (the per-connection router) (src/src/protocol/mod.rs)   *)
(*   - ConnectionService (the protocol handle) (src/src/protocol/mod.rs)   *)
(*   - NotificationHandle, NotificationSink, NotificationEventHandle       *)
(*                           (src/src/protocol/notification/handle.rs)     *)
(*     with the notification engine behind them as spec.md 4.3 gives it    *)
(* Channels are tokio bounded mpsc channels: a FIFO of at most ChanCap     *)
(* messages, `send().await` suspends the sender while the FIFO is full and *)
(* fails once the receiving end has been dropped.                          *)
(***************************************************************************)
EXTENDS Integers, Sequences, FiniteSets, TLC

\* ---------------------------------------------------------------- bounds
Names       == {"p1", "p2"}      \* protocol names used by callers
Peers       == {"X"}             \* remote peers
ChanCap     == 1                 \* capacity of every bounded channel
MaxChans    == 2                 \* add_protocol calls (one channel each)
MaxConns    == 1                 \* connections established
MaxIds      == 2                 \* ids a handle may count up to
MaxHandles  == 2                 \* protocol handles of one connection
MaxOpened   == 1                 \* requests the driver has taken and not answered
RemotePeers == {"A", "B"}        \* peers of the notification protocol
Online      == {"A"}             \* the peers that answer; opening to others fails
Notifications == {"n1", "n2"}    \* notification payloads
SyncCap     == 2                 \* capacity of a sink's sync channel
MaxSinks    == 2                 \* notification substreams opened
MaxEvents   == 3                 \* events reported to a handle whose stream is traced
Transports  == {"T1", "T2"}      \* QUIC transports, all listening
MaxDials    == 2                 \* Dial commands sent to the QUIC transports
Handshakes  == {"h0", "h1"}      \* handshake payloads

\* ------------------------------------------------------------- constants
NoChan           == 0            \* "no entry" result of a table lookup
NoId             == -1           \* "no pending request" marker of a handle
FirstSubstreamId == 0            \* ConnectionService::new, next_substream_id
NoSink           == 0            \* "no entry" result of a peer table lookup
InitialHandshake == "h0"         \* the handshake the protocol is configured with

VARIABLES
    phase,     \* "config": protocols are being registered; "running"
    ctx,       \* TransportContext.protocols: set of <<name, channel>>
    chans,     \* every handler channel ever created, by channel id
    conns,     \* every connection: its ProtocolSet and its driver
    handles,   \* every ConnectionService held by a handler
    last,      \* the operation that just returned, with its result
    cap,       \* DEFAULT_CHANNEL_SIZE of the build: capacity of every channel
    engine,    \* the notification engine: substream state of every peer
    events,    \* the channel engine -> NotificationHandle (event_rx)
    commands,  \* the channel NotificationHandle -> engine (command_tx)
    sinks,     \* every NotificationSink ever made: its two channels
    peers,     \* NotificationHandle.peers: peer -> sink
    app,       \* the application task that owns the NotificationHandle
    nlast,     \* the notification operation that just returned
    quic,      \* the QUIC transports: their loops, the connections between them
    node       \* the Litep2p nodes: their pending connections, their transports

\* the state of the router and of the notification protocol
rvars == <<phase, ctx, chans, conns, handles, last, cap>>
nvars == <<engine, events, commands, sinks, peers, app, nlast>>
vars == <<rvars, nvars, quic, node>>

\* ------------------------------------------------------ channel helpers
\* mutant of Enqueue: the message lands at the head of the FIFO
EnqueueFront(q, e) == <<e>> \o q

\* tokio Sender::send, the message lands at the tail of the FIFO
Enqueue(q, e) == Append(q, e)

\* mutant of Recv: the newest message is handed out
RecvNewest(q) == q[Len(q)]

\* tokio Receiver::recv, the message at the head of the FIFO is handed out
Recv(q) == Head(q)

\* mutant of SendOutcome: a full channel takes the message all the same
SendOutcomeNoWait(q, rx) == IF ~rx THEN "closed" ELSE "sent"

\* mutant of SendOutcome: a send to a full channel fails like one to a
\* closed channel
SendOutcomeFull(q, rx) == IF rx /\ Len(q) < cap THEN "sent" ELSE "closed"

\* mutant of SendOutcome: a send does not notice that the receiver is gone
SendOutcomeNoClose(q, rx) == IF Len(q) < cap THEN "sent" ELSE "wait"

\* tokio Sender::send().await: "closed" once the receiver is gone, "sent"
\* if there is capacity, "wait" (the sender stays suspended) otherwise
SendOutcome(q, rx) ==
    IF ~rx THEN "closed"
    ELSE IF Len(q) < cap THEN "sent"
    ELSE "wait"

\* ------------------------------------------- the name -> channel table
Keys(table) == {e[1] : e \in table}

\* HashMap::insert: the entry of the key is replaced
Insert(table, n, k) == {e \in table : e[1] # n} \cup {<<n, k>>}

\* mutant of Lookup: a name resolves to the entry of another name
LookupOther(table, n) ==
    IF \E e \in table : e[1] # n
    THEN (CHOOSE e \in table : e[1] # n)[2]
    ELSE NoChan

\* mutant of Lookup: an unknown name falls back to some entry of the table
LookupFallback(table, n) ==
    IF \E e \in table : e[1] = n
    THEN (CHOOSE e \in table : e[1] = n)[2]
    ELSE IF table # {} THEN (CHOOSE e \in table : TRUE)[2]
    ELSE NoChan

\* HashMap::get_mut: the channel of the name, NoChan if there is none
Lookup(table, n) ==
    IF \E e \in table : e[1] = n
    THEN (CHOOSE e \in table : e[1] = n)[2]
    ELSE NoChan

\* mutant of AddProtocolResult: a duplicate is accepted
AddProtocolResultAlwaysOk(table, n) == "Ok"

\* the match on the value HashMap::insert returns
AddProtocolResult(table, n) ==
    IF n \in Keys(table) THEN "ProtocolAlreadyExists" ELSE "Ok"

\* ---------------------------------------------------------------- events
NoService == [conn |-> 0, protocol |-> "", next |-> 0]

\* mutant of NewService: the handle does not start at the first id
NewServiceStale(protocol, c) ==
    [conn |-> c, protocol |-> protocol, next |-> FirstSubstreamId + 1]

\* ConnectionService::new(protocol, tx.clone()); conn stands for tx
NewService(protocol, c) ==
    [conn |-> c, protocol |-> protocol, next |-> FirstSubstreamId]

\* ConnectionEvent; conn is a ghost tag naming the reporting connection
ConnectionEstablished(peer, c, n) ==
    [type |-> "ConnectionEstablished", peer |-> peer, conn |-> c,
     protocol |-> "", dkind |-> "None", id |-> 0,
     service |-> NewService(n, c)]

SubstreamOpened(peer, c, n, dkind, id) ==
    [type |-> "SubstreamOpened", peer |-> peer, conn |-> c,
     protocol |-> n, dkind |-> dkind, id |-> id, service |-> NoService]

SubstreamOpenFailure(peer, c) ==
    [type |-> "SubstreamOpenFailure", peer |-> peer, conn |-> c,
     protocol |-> "", dkind |-> "None", id |-> 0, service |-> NoService]

NoEvent ==
    [type |-> "None", peer |-> "", conn |-> 0,
     protocol |-> "", dkind |-> "None", id |-> 0, service |-> NoService]

\* the substream id a handler can read out of a ConnectionEvent: only
\* SubstreamOpened with Direction::Outbound(id) has one
CorrelationId(e) ==
    IF e.type = "SubstreamOpened" /\ e.dkind = "Outbound" THEN e.id ELSE NoId

\* ProtocolEvent::OpenSubstream; via is a ghost tag naming the handle
OpenSubstreamEvent(n, id, h) == [protocol |-> n, substream_id |-> id, via |-> h]

\* ------------------------------------------------------------ last result
Ret(op, c, n, res) ==
    [op |-> op, conn |-> c, name |-> n, res |-> res, chan |-> NoChan,
     id |-> NoId, h |-> 0, waited |-> FALSE, ev |-> NoEvent]

\* ------------------------------------------- notification protocol: data
\* InnerNotificationEvent; sink is NoSink except in NotificationStreamOpened
\* payload: the handshake, error or notification the event carries
InnerEvent(type, peer, sink) ==
    [type |-> type, peer |-> peer, sink |-> sink, payload |-> ""]

NoInnerEvent == InnerEvent("None", "", NoSink)

\* NotificationCommand
Command(type, peer, result) ==
    [type |-> type, peer |-> peer, result |-> result, handshake |-> ""]

NoCommand == Command("None", "", "")

\* NotificationSink::new: the sending ends of two empty channels
NewSink(peer) == [peer |-> peer, syncq |-> <<>>, asyncq |-> <<>>, rx |-> TRUE]

\* what a notification operation returned
NRet(op, peer, res) ==
    [op |-> op, peer |-> peer, res |-> res, sink |-> NoSink, msg |-> "",
     waited |-> FALSE, ev |-> NoInnerEvent]

\* NotificationHandle::new with the engine at rest behind it
\* QuicTransport::new for every transport: nothing dialed, nothing pending
InitQuic ==
    quic = [cmds    |-> [t \in Transports |-> <<>>],
            dials   |-> [t \in Transports |-> {}],
            pending |-> [t \in Transports |-> {}],
            events  |-> [t \in Transports |-> <<>>],
            handled |-> [t \in Transports |-> {}],
            next    |-> [t \in Transports |-> 0],
            net     |-> <<>>,
            issued  |-> 0]

\* the nodes; every node listens on its own address (Litep2p::new)
Nodes == {"N1", "N2"}

\* the address of a step that has none
NoAddress == [stack |-> <<>>, to |-> ""]

LRet(op, n, a, res) == [op |-> op, node |-> n, address |-> a, res |-> res]

\* Litep2p::new for every node: nothing dialed, nothing pending
InitLitep2p ==
    node = [pending  |-> [n \in Nodes |-> {}],
            next     |-> [n \in Nodes |-> 0],
            dials    |-> {},
            events   |-> [n \in Nodes |-> <<>>],
            other    |-> 0,
            returned |-> [n \in Nodes |-> <<>>],
            last     |-> LRet("init", "", NoAddress, "")]

InitNotification ==
    /\ engine = [st |-> [p \in RemotePeers |-> "Closed"],
                 pc |-> "idle", pend |-> NoInnerEvent, hs |-> InitialHandshake,
                 sent |-> <<>>,
                 used |-> [p \in RemotePeers |-> ""]]
    /\ events = [q |-> <<>>, rx |-> TRUE, tx |-> TRUE]
    /\ commands = [q |-> <<>>, rx |-> TRUE]
    /\ sinks = <<>>
    /\ peers = [p \in RemotePeers |-> NoSink]
    /\ app = [pc |-> "idle", op |-> "", pend |-> NoCommand, peer |-> "", msg |-> "",
              seen |-> [p \in RemotePeers |-> "None"]]
    /\ nlast = NRet("init", "", "")
    /\ InitQuic
    /\ InitLitep2p

Init ==
    /\ phase = "config"
    /\ ctx = {}
    /\ chans = <<>>
    /\ conns = <<>>
    /\ handles = <<>>
    /\ last = Ret("init", 0, "", "")
    /\ cap = ChanCap
    /\ InitNotification

\* --------------------------------------------------------- registration
\* TransportContext::add_protocol
AddProtocol(n) ==
    /\ phase = "config"
    /\ Len(chans) < MaxChans
    /\ LET k   == Len(chans) + 1
           res == AddProtocolResult(ctx, n)
       IN /\ ctx' = Insert(ctx, n, k)
          \* on Err the freshly made ConnectionService (the receiver) is dropped
          /\ chans' = Append(chans, [name |-> n, q |-> <<>>,
                                     rx |-> (res = "Ok"), closed |-> {}])
          /\ last' = [Ret("add_protocol", 0, n, res) EXCEPT !.chan = k]
    /\ UNCHANGED <<phase, conns, handles, cap, nvars, quic, node>>

\* Litep2p::new hands the finished context to the transport
Start ==
    /\ phase = "config"
    /\ phase' = "running"
    /\ last' = Ret("start", 0, "", "")
    /\ UNCHANGED <<ctx, chans, conns, handles, cap, nvars, quic, node>>

\* --------------------------------------------------- connection set-up
\* the orders in which a HashMap with these entries may be iterated
Orders(S) ==
    {o \in [1..Cardinality(S) -> S] : \A i, j \in 1..Cardinality(S) : i # j => o[i] # o[j]}

\* mutant of EstablishDone: the router is handed out before the loop ends
EstablishDoneEarly(todo) == TRUE

\* from_transport_context returns Ok(Self) once the for loop has ended
EstablishDone(todo) == todo = <<>>

\* ProtocolSet::from_transport_context, up to the first send
FromTransportContext(peer) ==
    /\ phase = "running"
    /\ Len(conns) < MaxConns
    /\ \E order \in Orders(ctx) :
         LET c    == Len(conns) + 1
             done == EstablishDone(order)
         IN /\ conns' = Append(conns,
                  [peer |-> peer, protocols |-> ctx, todo |-> order,
                   pc |-> IF done THEN "ready" ELSE "establishing",
                   rx |-> TRUE, reqq |-> <<>>,
                   pend |-> NoEvent, pendTo |-> NoChan, pendOp |-> "",
                   pendName |-> "", opened |-> {}, issued |-> {}])
            /\ last' = Ret("from_transport_context", c, "",
                           IF done THEN "Ok" ELSE "")
    /\ UNCHANGED <<phase, ctx, chans, handles, cap, nvars, quic, node>>

\* one iteration of the loop of from_transport_context: send(...).await?
EstablishSend(c) ==
    /\ conns[c].pc = "establishing"
    /\ LET n   == Head(conns[c].todo)[1]
           k   == Head(conns[c].todo)[2]
           out == SendOutcome(chans[k].q, chans[k].rx)
           rest == Tail(conns[c].todo)
       IN \/ /\ out = "closed"
             \* `?` returns the error; tx and rx are dropped with the frame
             /\ conns' = [conns EXCEPT ![c].pc = "failed", ![c].rx = FALSE]
             /\ last' = [Ret("from_transport_context", c, n, "ChannelClosed")
                            EXCEPT !.chan = k]
             /\ UNCHANGED chans
          \/ /\ out = "sent"
             /\ chans' = [chans EXCEPT ![k].q =
                    Enqueue(@, ConnectionEstablished(conns[c].peer, c, n))]
             /\ conns' = [conns EXCEPT ![c].todo = rest,
                    ![c].pc = IF EstablishDone(rest) THEN "ready" ELSE "establishing"]
             /\ last' = [Ret("from_transport_context", c, n,
                             IF EstablishDone(rest) THEN "Ok" ELSE "")
                            EXCEPT !.chan = k]
    /\ UNCHANGED <<phase, ctx, handles, cap, nvars, quic, node>>

\* ------------------------------------------------------------ reporting
NoReq == [protocol |-> "", id |-> NoId]

\* the event a report carries for the request r it answers (NoReq: inbound)
OpenedEvent(c, n, r) ==
    IF r = NoReq
    THEN SubstreamOpened(conns[c].peer, c, n, "Inbound", 0)
    ELSE SubstreamOpened(conns[c].peer, c, n, "Outbound", r.id)

\* the driver of connection c calls a report operation for protocol n with
\* event e: lookup, then info.tx.send(e).await.map_err(From::from)
Report(op, c, n, r, e) ==
    /\ conns[c].pc = "ready"
    /\ LET k   == Lookup(conns[c].protocols, n)
           out == SendOutcome(chans[k].q, chans[k].rx)
       IN IF k = NoChan
          THEN /\ conns' = [conns EXCEPT ![c].opened = @ \ {r}]
               /\ last' = Ret(op, c, n, "ProtocolNotSupported")
               /\ UNCHANGED chans
          ELSE \/ /\ out = "closed"
                  /\ conns' = [conns EXCEPT ![c].opened = @ \ {r}]
                  /\ last' = [Ret(op, c, n, "ChannelClosed") EXCEPT !.chan = k]
                  /\ UNCHANGED chans
               \/ /\ out = "sent"
                  /\ conns' = [conns EXCEPT ![c].opened = @ \ {r}]
                  /\ chans' = [chans EXCEPT ![k].q = Enqueue(@, e)]
                  /\ last' = [Ret(op, c, n, "Ok") EXCEPT !.chan = k]
               \/ /\ out = "wait"
                  \* the channel is full: the driver is suspended in send
                  /\ conns' = [conns EXCEPT ![c].opened = @ \ {r},
                         ![c].pc = "sending", ![c].pend = e, ![c].pendTo = k,
                         ![c].pendOp = op, ![c].pendName = n]
                  /\ last' = [Ret(op, c, n, "Pending") EXCEPT !.chan = k]
                  /\ UNCHANGED chans
    /\ UNCHANGED <<phase, ctx, handles, cap, nvars, quic, node>>

\* ProtocolSet::report_substream_open
ReportSubstreamOpen(c, n, r) ==
    Report("report_substream_open", c, n, r, OpenedEvent(c, n, r))

\* ProtocolSet::report_substream_open_failure
ReportSubstreamOpenFailure(c, n, r) ==
    Report("report_substream_open_failure", c, n, r,
           SubstreamOpenFailure(conns[c].peer, c))

\* a driver suspended in send of a report operation is resumed
ReportSend(c) ==
    /\ conns[c].pc = "sending"
    /\ LET k   == conns[c].pendTo
           out == SendOutcome(chans[k].q, chans[k].rx)
       IN \/ /\ out = "closed"
             /\ last' = [Ret(conns[c].pendOp, c, conns[c].pendName, "ChannelClosed")
                            EXCEPT !.chan = k, !.waited = TRUE]
             /\ UNCHANGED chans
          \/ /\ out = "sent"
             /\ chans' = [chans EXCEPT ![k].q = Enqueue(@, conns[c].pend)]
             /\ last' = [Ret(conns[c].pendOp, c, conns[c].pendName, "Ok")
                            EXCEPT !.chan = k, !.waited = TRUE]
    /\ conns' = [conns EXCEPT ![c].pc = "ready", ![c].pend = NoEvent,
                              ![c].pendTo = NoChan, ![c].pendOp = "",
                              ![c].pendName = ""]
    /\ UNCHANGED <<phase, ctx, handles, cap, nvars, quic, node>>

\* ProtocolSet::next_event: the driver takes the oldest request
NextEvent(c) ==
    /\ conns[c].pc = "ready"
    /\ conns[c].reqq # <<>>
    /\ Cardinality(conns[c].opened) < MaxOpened
    /\ LET e == Recv(conns[c].reqq)
       IN /\ conns' = [conns EXCEPT ![c].reqq = Tail(@),
                ![c].opened = @ \cup {[protocol |-> e.protocol, id |-> e.substream_id]}]
          /\ last' = [Ret("next_event", c, e.protocol, "Some")
                         EXCEPT !.id = e.substream_id, !.h = e.via]
    /\ UNCHANGED <<phase, ctx, chans, handles, cap, nvars, quic, node>>

\* the connection ends: its driver drops the ProtocolSet and, with its
\* receiver, the requests still queued
DropProtocolSet(c) ==
    /\ conns[c].pc = "ready"
    /\ conns' = [conns EXCEPT ![c].pc = "closed", ![c].rx = FALSE,
                              ![c].reqq = <<>>, ![c].opened = {}]
    /\ last' = Ret("drop_protocol_set", c, "", "")
    /\ UNCHANGED <<phase, ctx, chans, handles, cap, nvars, quic, node>>

\* ------------------------------------------------------------- handlers
\* ConnectionService::next_event of new.rs: a handler takes its next event
HandlerNextEvent(k) ==
    /\ chans[k].rx
    /\ chans[k].q # <<>>
    /\ LET e == Recv(chans[k].q)
       IN /\ chans' = [chans EXCEPT ![k].q = Tail(@),
                \* the connections the handler has been told are closed
                ![k].closed = IF e.type = "ConnectionClosed"
                              THEN @ \cup {e.conn} ELSE @]
          /\ handles' =
               IF e.type = "ConnectionEstablished"
               THEN Append(handles,
                      [conn |-> e.service.conn, protocol |-> e.service.protocol,
                       next |-> e.service.next, pend |-> NoId, owner |-> k,
                       root |-> Len(handles) + 1, alive |-> TRUE, cloned |-> FALSE,
                       calls |-> 0])
               ELSE handles
          /\ last' = [Ret("handler_next_event", e.conn, chans[k].name, e.type)
                         EXCEPT !.chan = k, !.ev = e]
    /\ UNCHANGED <<phase, ctx, conns, cap, nvars, quic, node>>

\* a handler task exits: its receiver (with the events still queued) and
\* its handles are dropped
HandlerExit(k) ==
    /\ chans[k].rx
    /\ chans' = [chans EXCEPT ![k].rx = FALSE, ![k].q = <<>>]
    /\ handles' = [h \in DOMAIN handles |->
                     IF handles[h].owner = k
                     THEN [handles[h] EXCEPT !.alive = FALSE, !.pend = NoId,
                                             !.next = 0, !.calls = 0]
                     ELSE handles[h]]
    /\ last' = [Ret("handler_exit", 0, chans[k].name, "") EXCEPT !.chan = k]
    /\ UNCHANGED <<phase, ctx, conns, cap, nvars, quic, node>>

\* the handles of connection c that were made by cloning
Clones(c) == {g \in DOMAIN handles : handles[g].conn = c /\ handles[g].root # g}

\* #[derive(Clone)] on ConnectionService: every field is copied
CloneService(h) ==
    /\ handles[h].alive
    /\ handles[h].pend = NoId
    /\ Cardinality(Keys(conns[handles[h].conn].protocols))
         + Cardinality(Clones(handles[h].conn)) < MaxHandles
    /\ handles' = Append([handles EXCEPT ![h].cloned = TRUE],
                         [handles[h] EXCEPT !.cloned = TRUE, !.calls = 0])
    /\ last' = [Ret("clone", handles[h].conn, handles[h].protocol, "")
                   EXCEPT !.h = h]
    /\ UNCHANGED <<phase, ctx, chans, conns, cap, nvars, quic, node>>

\* mutant of NextSubstreamId: the counter is not advanced
NextSubstreamIdStuck(n) == n

\* ConnectionService::next_substream_id: self.next_substream_id += 1
NextSubstreamId(n) == n + 1

\* ConnectionService::open_substream
OpenSubstream(h) ==
    /\ handles[h].alive
    /\ handles[h].pend = NoId
    /\ handles[h].next < MaxIds
    /\ LET id  == handles[h].next
           c   == handles[h].conn
           n   == handles[h].protocol
           out == SendOutcome(conns[c].reqq, conns[c].rx)
           iss == conns[c].issued \cup {[protocol |-> n, id |-> id]}
       IN \/ /\ out = "closed"
             /\ handles' = [handles EXCEPT ![h].next = NextSubstreamId(id),
                                           ![h].calls = @ + 1]
             /\ conns' = [conns EXCEPT ![c].issued = iss]
             /\ last' = [Ret("open_substream", c, n, "ChannelClosed")
                            EXCEPT !.h = h, !.id = id]
          \/ /\ out = "sent"
             /\ handles' = [handles EXCEPT ![h].next = NextSubstreamId(id),
                                           ![h].calls = @ + 1]
             /\ conns' = [conns EXCEPT ![c].issued = iss,
                    ![c].reqq = Enqueue(@, OpenSubstreamEvent(n, id, h))]
             /\ last' = [Ret("open_substream", c, n, "Ok")
                            EXCEPT !.h = h, !.id = id]
          \/ /\ out = "wait"
             \* the merged queue is full: the handler is suspended in send
             /\ handles' = [handles EXCEPT ![h].next = NextSubstreamId(id),
                                           ![h].calls = @ + 1, ![h].pend = id]
             /\ conns' = [conns EXCEPT ![c].issued = iss]
             /\ last' = [Ret("open_substream", c, n, "Pending")
                            EXCEPT !.h = h, !.id = id]
    /\ UNCHANGED <<phase, ctx, chans, cap, nvars, quic, node>>

\* a handler suspended in send of open_substream is resumed
OpenSubstreamSend(h) ==
    /\ handles[h].alive
    /\ handles[h].pend # NoId
    /\ LET c   == handles[h].conn
           n   == handles[h].protocol
           id  == handles[h].pend
           out == SendOutcome(conns[c].reqq, conns[c].rx)
       IN \/ /\ out = "closed"
             /\ last' = [Ret("open_substream", c, n, "ChannelClosed")
                            EXCEPT !.h = h, !.id = id, !.waited = TRUE]
             /\ UNCHANGED conns
          \/ /\ out = "sent"
             /\ conns' = [conns EXCEPT ![c].reqq =
                    Enqueue(@, OpenSubstreamEvent(n, id, h))]
             /\ last' = [Ret("open_substream", c, n, "Ok")
                            EXCEPT !.h = h, !.id = id, !.waited = TRUE]
    /\ handles' = [handles EXCEPT ![h].pend = NoId]
    /\ UNCHANGED <<phase, ctx, chans, cap, nvars, quic, node>>

\* the requests of a connection the driver may report a result for
Requests(c, n) == {r \in conns[c].opened : r.protocol = n} \cup {NoReq}

Next ==
    \/ \E n \in Names : AddProtocol(n)
    \/ Start
    \/ \E p \in Peers : FromTransportContext(p)
    \/ \E c \in DOMAIN conns : EstablishSend(c)
    \/ \E c \in DOMAIN conns, n \in Names : \E r \in Requests(c, n) :
           ReportSubstreamOpen(c, n, r)
    \/ \E c \in DOMAIN conns, n \in Names : \E r \in Requests(c, n) :
           ReportSubstreamOpenFailure(c, n, r)
    \/ \E c \in DOMAIN conns : ReportSend(c)
    \/ \E c \in DOMAIN conns : NextEvent(c)
    \/ \E c \in DOMAIN conns : DropProtocolSet(c)
    \/ \E k \in DOMAIN chans : HandlerNextEvent(k)
    \/ \E k \in DOMAIN chans : HandlerExit(k)
    \/ \E h \in DOMAIN handles : CloneService(h)
    \/ \E h \in DOMAIN handles : OpenSubstream(h)
    \/ \E h \in DOMAIN handles : OpenSubstreamSend(h)

Spec == Init /\ [][Next]_vars

\* ------------------------------------------- a build with wider channels
\* the same program built with channels one message wider, so that two
\* messages can wait in one channel
InitOrder ==
    /\ phase = "config"
    /\ ctx = {}
    /\ chans = <<>>
    /\ conns = <<>>
    /\ handles = <<>>
    /\ last = Ret("init", 0, "", "")
    /\ cap = ChanCap + 1
    /\ InitNotification

\* ConnectionService::open_substream, the first call on a handle
OpenFirstSubstream(h) ==
    /\ handles[h].next = FirstSubstreamId
    /\ OpenSubstream(h)

\* every handle makes one request, so the merged queue never fills up and no
\* open_substream() is left suspended
NextOrder ==
    \/ \E n \in Names : AddProtocol(n)
    \/ Start
    \/ \E p \in Peers : FromTransportContext(p)
    \/ \E c \in DOMAIN conns : EstablishSend(c)
    \/ \E c \in DOMAIN conns, n \in Names : \E r \in Requests(c, n) :
           ReportSubstreamOpen(c, n, r)
    \/ \E c \in DOMAIN conns, n \in Names : \E r \in Requests(c, n) :
           ReportSubstreamOpenFailure(c, n, r)
    \/ \E c \in DOMAIN conns : ReportSend(c)
    \/ \E c \in DOMAIN conns : NextEvent(c)
    \/ \E c \in DOMAIN conns : DropProtocolSet(c)
    \/ \E k \in DOMAIN chans : HandlerNextEvent(k)
    \/ \E k \in DOMAIN chans : HandlerExit(k)
    \/ \E h \in DOMAIN handles : CloneService(h)
    \/ \E h \in DOMAIN handles : OpenFirstSubstream(h)

SpecOrder == InitOrder /\ [][NextOrder]_vars

\* ------------------------------------- the merged queue without senders
\* the handles of connection c that have not been dropped
LiveHandles(c) == {h \in DOMAIN handles : handles[h].conn = c /\ handles[h].alive}

\* a ConnectionService of connection c is still inside a ConnectionEstablished
\* event that waits in the channel of a handler
ServiceInFlight(c) ==
    \E k \in DOMAIN chans :
       /\ chans[k].rx
       /\ \E i \in DOMAIN chans[k].q :
             /\ chans[k].q[i].type = "ConnectionEstablished"
             /\ chans[k].q[i].conn = c

\* mutant of RouterSenders: the ProtocolSet keeps the sender it cloned from
RouterSendersKept(c) == 1

\* the senders of the merged queue the ProtocolSet itself holds: `tx` is a
\* local of from_transport_context and is dropped when it returns
RouterSenders(c) == 0

\* the senders of the merged queue of connection c
SenderCount(c) ==
    RouterSenders(c) + Cardinality(LiveHandles(c))
      + (IF ServiceInFlight(c) THEN 1 ELSE 0)

\* ProtocolSet::next_event: recv yields None once the queue is empty and
\* every sender is gone
NextEventNone(c) ==
    /\ conns[c].pc = "ready"
    /\ conns[c].reqq = <<>>
    /\ SenderCount(c) = 0
    /\ last' = Ret("next_event", c, "", "None")
    /\ UNCHANGED <<phase, ctx, chans, conns, handles, cap, nvars, quic, node>>

NextDrop ==
    \/ Next
    \/ \E c \in DOMAIN conns : NextEventNone(c)

SpecDrop == Init /\ [][NextDrop]_vars

\* ----------------------------------------- notification protocol: engine
\* the engine's substream states with peer p moved to state t
Moved(p, t) == [engine.st EXCEPT ![p] = t]

\* the sink the engine made last for peer p
CurrentSink(p) ==
    CHOOSE s \in DOMAIN sinks :
       /\ sinks[s].peer = p
       /\ \A t \in DOMAIN sinks : sinks[t].peer = p => t <= s

\* the task that writes a sink's notifications to the substream ends: both
\* receivers, and what they still hold, are dropped
SinkClosed(s) ==
    [sinks EXCEPT ![s].rx = FALSE, ![s].syncq = <<>>, ![s].asyncq = <<>>]

\* NotificationEventHandle::report_*: `let _ = self.tx.send(event).await`,
\* st being the substream states the engine has moved to
EngineReport(e, st) ==
    LET out == SendOutcome(events.q, events.rx)
    IN \/ /\ out = "closed"
          /\ engine' = [engine EXCEPT !.st = st]
          /\ UNCHANGED events
       \/ /\ out = "sent"
          /\ engine' = [engine EXCEPT !.st = st]
          /\ events' = [events EXCEPT !.q = Enqueue(@, e)]
       \/ /\ out = "wait"
          \* the event channel is full: the engine is suspended in send
          /\ engine' = [engine EXCEPT !.st = st, !.pc = "reporting", !.pend = e]
          /\ UNCHANGED events

\* an engine suspended in send of a report is resumed
EngineReportSend ==
    /\ engine.pc = "reporting"
    /\ LET out == SendOutcome(events.q, events.rx)
       IN \/ /\ out = "closed"
             /\ UNCHANGED events
          \/ /\ out = "sent"
             /\ events' = [events EXCEPT !.q = Enqueue(@, engine.pend)]
    /\ engine' = [engine EXCEPT !.pc = "idle", !.pend = NoInnerEvent]
    /\ nlast' = NRet("engine", "", "")
    /\ UNCHANGED <<commands, sinks, peers, app, rvars, quic, node>>

\* Closed -> Validating: an inbound substream arrives;
\* NotificationEventHandle::report_inbound_substream
EngineInbound(p) ==
    /\ engine.pc = "idle"
    /\ engine.st[p] = "Closed"
    /\ EngineReport(InnerEvent("ValidateSubstream", p, NoSink),
                    Moved(p, "Validating"))
    /\ nlast' = NRet("engine", "", "")
    /\ UNCHANGED <<commands, sinks, peers, app, rvars, quic, node>>

\* the engine takes the next command of the application
EngineCommand ==
    /\ engine.pc = "idle"
    /\ commands.q # <<>>
    /\ LET c == Recv(commands.q)
           p == c.peer
       IN /\ commands' = [commands EXCEPT !.q = Tail(@)]
          \* a verdict that is applied labels the step
          /\ nlast' = IF c.type = "SubstreamValidated"
                         /\ engine.st[p] = "Validating"
                      THEN [NRet("engine", p, "") EXCEPT !.msg = c.result]
                      ELSE NRet("engine", "", "")
          /\ IF c.type = "CloseSubstream" /\ engine.st[p] = "Open"
             THEN \* Open -> Closed on the application's request
                  /\ sinks' = SinkClosed(CurrentSink(p))
                  /\ EngineReport(InnerEvent("NotificationStreamClosed", p, NoSink),
                                  Moved(p, "Closed"))
             ELSE /\ engine' = [engine EXCEPT
                       !.st =
                          IF c.type = "OpenSubstream" /\ engine.st[p] = "Closed"
                          THEN Moved(p, "Opening")
                          ELSE IF c.type = "SubstreamValidated"
                                  /\ engine.st[p] = "Validating"
                          THEN Moved(p, IF c.result = "Accept"
                                        THEN "Opening" ELSE "Closed")
                          ELSE engine.st,
                       \* SetHandshake replaces the handshake of later attempts
                       !.hs = IF c.type = "SetHandshake" THEN c.handshake ELSE @,
                       \* an attempt that starts takes the current handshake
                       !.used =
                          IF \/ c.type = "OpenSubstream" /\ engine.st[p] = "Closed"
                             \/ /\ c.type = "SubstreamValidated"
                                /\ engine.st[p] = "Validating"
                                /\ c.result = "Accept"
                          THEN [@ EXCEPT ![p] = engine.hs]
                          ELSE @]
                  /\ UNCHANGED <<events, sinks>>
    /\ UNCHANGED <<peers, app, rvars, quic, node>>

\* Opening -> Open: the handshake succeeded, a sink is made;
\* NotificationEventHandle::report_notification_stream_opened
EngineOpened(p) ==
    /\ engine.pc = "idle"
    /\ engine.st[p] = "Opening"
    /\ Len(sinks) < MaxSinks
    /\ sinks' = Append(sinks, NewSink(p))
    /\ EngineReport(InnerEvent("NotificationStreamOpened", p, Len(sinks) + 1),
                    Moved(p, "Open"))
    /\ nlast' = NRet("engine", "", "")
    /\ UNCHANGED <<commands, peers, app, rvars, quic, node>>

\* Opening -> Closed: the handshake failed;
\* NotificationEventHandle::report_notification_stream_open_failure
EngineOpenFailed(p) ==
    /\ engine.pc = "idle"
    /\ engine.st[p] = "Opening"
    /\ EngineReport(InnerEvent("NotificationStreamOpenFailure", p, NoSink),
                    Moved(p, "Closed"))
    /\ nlast' = NRet("engine", "", "")
    /\ UNCHANGED <<commands, sinks, peers, app, rvars, quic, node>>

\* Open -> Closed: the peer disconnects or a write fails;
\* NotificationEventHandle::report_notification_stream_closed
EngineClosed(p) ==
    /\ engine.pc = "idle"
    /\ engine.st[p] = "Open"
    /\ sinks' = SinkClosed(CurrentSink(p))
    /\ EngineReport(InnerEvent("NotificationStreamClosed", p, NoSink),
                    Moved(p, "Closed"))
    /\ nlast' = NRet("engine", "", "")
    /\ UNCHANGED <<commands, peers, app, rvars, quic, node>>

\* the writer task of sink s takes the next sync notification
ConsumeSync(s) ==
    /\ sinks[s].rx
    /\ sinks[s].syncq # <<>>
    /\ sinks' = [sinks EXCEPT ![s].syncq = Tail(@)]
    /\ nlast' = NRet("consume", "", "")
    /\ UNCHANGED <<engine, events, commands, peers, app, rvars, quic, node>>

\* the writer task of sink s takes the next async notification
ConsumeAsync(s) ==
    /\ sinks[s].rx
    /\ sinks[s].asyncq # <<>>
    /\ sinks' = [sinks EXCEPT ![s].asyncq = Tail(@)]
    /\ nlast' = NRet("consume", "", "")
    /\ UNCHANGED <<engine, events, commands, peers, app, rvars, quic, node>>

\* ----------------------------------------- notification protocol: handle
Lifecycle ==
    {"NotificationStreamOpened", "NotificationStreamClosed",
     "NotificationStreamOpenFailure"}

\* mutant of PollTable: an opened stream puts no sink into the table
PollTableDropsOpened(table, e) ==
    IF e.type = "NotificationStreamClosed"
    THEN [table EXCEPT ![e.peer] = NoSink]
    ELSE table

\* mutant of PollTable: a closed stream keeps its sink in the table
PollTableKeepsClosed(table, e) ==
    IF e.type = "NotificationStreamOpened"
    THEN [table EXCEPT ![e.peer] = e.sink]
    ELSE table

\* mutant of PollTable: an opened stream of a peer that has a sink keeps it
PollTableKeepsFirst(table, e) ==
    IF e.type = "NotificationStreamOpened"
    THEN IF table[e.peer] = NoSink THEN [table EXCEPT ![e.peer] = e.sink] ELSE table
    ELSE IF e.type = "NotificationStreamClosed"
    THEN [table EXCEPT ![e.peer] = NoSink]
    ELSE table

\* NotificationHandle::poll_next, what the polled event does to self.peers
PollTable(table, e) ==
    IF e.type = "NotificationStreamOpened"
    THEN [table EXCEPT ![e.peer] = e.sink]
    ELSE IF e.type = "NotificationStreamClosed"
    THEN [table EXCEPT ![e.peer] = NoSink]
    ELSE table

\* mutant of Public: the public event keeps variant and peer only
PublicDropsPayload(e) == [e EXCEPT !.sink = NoSink, !.payload = ""]

\* NotificationHandle::poll_next, the public NotificationEvent made of an
\* InnerNotificationEvent: every field is passed on but the sink of
\* NotificationStreamOpened
Public(e) == [e EXCEPT !.sink = NoSink]

\* mutant of PollNext: the polled event is left in the event channel
PollNextPeeks ==
    /\ app.pc = "idle"
    /\ events.rx
    /\ events.q # <<>>
    /\ LET e == Recv(events.q)
       IN /\ events' = events
          /\ peers' = PollTable(peers, e)
          /\ app' = [app EXCEPT !.seen =
                       IF e.type \in Lifecycle
                       THEN [@ EXCEPT ![e.peer] = e.type] ELSE @]
          /\ nlast' = [NRet("poll_next", e.peer, e.type)
                          EXCEPT !.ev = Public(e)]
    /\ UNCHANGED <<engine, commands, sinks, rvars, quic, node>>

\* NotificationHandle::poll_next with an event waiting
PollNext ==
    /\ app.pc = "idle"
    /\ events.rx
    /\ events.q # <<>>
    /\ LET e == Recv(events.q)
       IN /\ events' = [events EXCEPT !.q = Tail(@)]
          /\ peers' = PollTable(peers, e)
          \* the last lifecycle event the application has seen for the peer
          /\ app' = [app EXCEPT !.seen =
                       IF e.type \in Lifecycle
                       THEN [@ EXCEPT ![e.peer] = e.type] ELSE @]
          /\ nlast' = [NRet("poll_next", e.peer, e.type)
                          EXCEPT !.ev = Public(e)]
    /\ UNCHANGED <<engine, commands, sinks, rvars, quic, node>>

\* the verdict or handshake a command carries
Passed(c) == IF c.type = "SetHandshake" THEN c.handshake ELSE c.result

\* mutant of SendCommand: every verdict is sent as Accept
SendCommandAccepts(op, p, c) ==
    LET out == SendOutcome(commands.q, commands.rx)
        d   == IF c.type = "SubstreamValidated"
               THEN [c EXCEPT !.result = "Accept"] ELSE c
    IN \/ /\ out = "closed"
          /\ nlast' = [NRet(op, p, "Ok") EXCEPT !.msg = Passed(c)]
          /\ UNCHANGED <<commands, app>>
       \/ /\ out = "sent"
          /\ commands' = [commands EXCEPT !.q = Enqueue(@, d)]
          /\ nlast' = [NRet(op, p, "Ok") EXCEPT !.msg = Passed(c)]
          /\ UNCHANGED app
       \/ /\ out = "wait"
          /\ app' = [app EXCEPT !.pc = "commanding", !.op = op, !.pend = d,
                                !.peer = p]
          /\ nlast' = [NRet(op, p, "Pending") EXCEPT !.msg = Passed(c)]
          /\ UNCHANGED commands

\* mutant of SendCommand: a closed command channel is reported to the caller
SendCommandReportsClosed(op, p, c) ==
    LET out == SendOutcome(commands.q, commands.rx)
    IN \/ /\ out = "closed"
          /\ nlast' = [NRet(op, p, "EssentialTaskClosed") EXCEPT !.msg = Passed(c)]
          /\ UNCHANGED <<commands, app>>
       \/ /\ out = "sent"
          /\ commands' = [commands EXCEPT !.q = Enqueue(@, c)]
          /\ nlast' = [NRet(op, p, "Ok") EXCEPT !.msg = Passed(c)]
          /\ UNCHANGED app
       \/ /\ out = "wait"
          /\ app' = [app EXCEPT !.pc = "commanding", !.op = op, !.pend = c,
                                !.peer = p]
          /\ nlast' = [NRet(op, p, "Pending") EXCEPT !.msg = Passed(c)]
          /\ UNCHANGED commands

\* self.command_tx.send(command).await, the result being thrown away; the
\* step is labelled with the verdict or handshake the caller passed
SendCommand(op, p, c) ==
    LET out == SendOutcome(commands.q, commands.rx)
    IN \/ /\ out = "closed"
          /\ nlast' = [NRet(op, p, "Ok") EXCEPT !.msg = Passed(c)]
          /\ UNCHANGED <<commands, app>>
       \/ /\ out = "sent"
          /\ commands' = [commands EXCEPT !.q = Enqueue(@, c)]
          /\ nlast' = [NRet(op, p, "Ok") EXCEPT !.msg = Passed(c)]
          /\ UNCHANGED app
       \/ /\ out = "wait"
          \* the command channel is full: the application is suspended
          /\ app' = [app EXCEPT !.pc = "commanding", !.op = op, !.pend = c,
                                !.peer = p]
          /\ nlast' = [NRet(op, p, "Pending") EXCEPT !.msg = Passed(c)]
          /\ UNCHANGED commands

\* an application suspended in send of a command is resumed
CommandSend ==
    /\ app.pc = "commanding"
    /\ LET out == SendOutcome(commands.q, commands.rx)
       IN \/ /\ out = "closed"
             /\ UNCHANGED commands
          \/ /\ out = "sent"
             /\ commands' = [commands EXCEPT !.q = Enqueue(@, app.pend)]
    /\ app' = [app EXCEPT !.pc = "idle", !.op = "", !.pend = NoCommand,
                          !.peer = ""]
    /\ nlast' = [NRet(app.op, app.peer, "Ok")
                    EXCEPT !.waited = TRUE, !.msg = Passed(app.pend)]
    /\ UNCHANGED <<engine, events, sinks, peers, rvars, quic, node>>

\* mutant of HandleOpenSubstream: the peer table is not looked at
HandleOpenSubstreamUnguarded(p) ==
    /\ app.pc = "idle"
    /\ SendCommand("open_substream", p, Command("OpenSubstream", p, ""))
    /\ UNCHANGED <<engine, events, sinks, peers, rvars, quic, node>>

\* mutant of HandleOpenSubstream: a peer whose last open attempt failed is
\* treated as if it were in the peer table
HandleOpenSubstreamRefusesFailed(p) ==
    /\ app.pc = "idle"
    /\ IF peers[p] # NoSink \/ app.seen[p] = "NotificationStreamOpenFailure"
       THEN /\ nlast' = NRet("open_substream", p, "PeerAlreadyExists")
            /\ UNCHANGED <<commands, app>>
       ELSE SendCommand("open_substream", p, Command("OpenSubstream", p, ""))
    /\ UNCHANGED <<engine, events, sinks, peers, rvars, quic, node>>

\* mutant of HandleOpenSubstream: a peer with an open request still queued
\* is refused
HandleOpenSubstreamOnce(p) ==
    /\ app.pc = "idle"
    /\ IF \/ peers[p] # NoSink
          \/ \E i \in DOMAIN commands.q :
                commands.q[i] = Command("OpenSubstream", p, "")
       THEN /\ nlast' = NRet("open_substream", p, "PeerAlreadyExists")
            /\ UNCHANGED <<commands, app>>
       ELSE SendCommand("open_substream", p, Command("OpenSubstream", p, ""))
    /\ UNCHANGED <<engine, events, sinks, peers, rvars, quic, node>>

\* NotificationHandle::open_substream
HandleOpenSubstream(p) ==
    /\ app.pc = "idle"
    /\ IF peers[p] # NoSink
       THEN /\ nlast' = NRet("open_substream", p, "PeerAlreadyExists")
            /\ UNCHANGED <<commands, app>>
       ELSE SendCommand("open_substream", p, Command("OpenSubstream", p, ""))
    /\ UNCHANGED <<engine, events, sinks, peers, rvars, quic, node>>

\* mutant of HandleCloseSubstream: the call removes the peer from the table
HandleCloseSubstreamRemoves(p) ==
    /\ app.pc = "idle"
    /\ IF peers[p] = NoSink
       THEN /\ nlast' = NRet("close_substream", p, "")
            /\ UNCHANGED <<commands, app>>
       ELSE SendCommand("close_substream", p, Command("CloseSubstream", p, ""))
    /\ peers' = [peers EXCEPT ![p] = NoSink]
    /\ UNCHANGED <<engine, events, sinks, rvars, quic, node>>

\* NotificationHandle::close_substream
HandleCloseSubstream(p) ==
    /\ app.pc = "idle"
    /\ IF peers[p] = NoSink
       THEN /\ nlast' = NRet("close_substream", p, "")
            /\ UNCHANGED <<commands, app>>
       ELSE SendCommand("close_substream", p, Command("CloseSubstream", p, ""))
    /\ UNCHANGED <<engine, events, sinks, peers, rvars, quic, node>>

\* mutant of SetHandshake: the call also empties the peer table
SetHandshakeClearsPeers(h) ==
    /\ app.pc = "idle"
    /\ SendCommand("set_handshake", "",
                   [Command("SetHandshake", "", "") EXCEPT !.handshake = h])
    /\ peers' = [p \in RemotePeers |-> NoSink]
    /\ UNCHANGED <<engine, events, sinks, rvars, quic, node>>

\* NotificationHandle::set_handshake
SetHandshake(h) ==
    /\ app.pc = "idle"
    /\ SendCommand("set_handshake", "",
                   [Command("SetHandshake", "", "") EXCEPT !.handshake = h])
    /\ UNCHANGED <<engine, events, sinks, peers, rvars, quic, node>>

\* mutant of SendValidationResult: like close_substream, the call does
\* nothing for a peer that is not in the peer table
SendValidationResultChecksTable(p, result) ==
    /\ app.pc = "idle"
    /\ IF peers[p] = NoSink
       THEN /\ nlast' = NRet("send_validation_result", p, "")
            /\ UNCHANGED <<commands, app>>
       ELSE SendCommand("send_validation_result", p,
                        Command("SubstreamValidated", p, result))
    /\ UNCHANGED <<engine, events, sinks, peers, rvars, quic, node>>

\* NotificationHandle::send_validation_result
SendValidationResult(p, result) ==
    /\ app.pc = "idle"
    /\ SendCommand("send_validation_result", p,
                   Command("SubstreamValidated", p, result))
    /\ UNCHANGED <<engine, events, sinks, peers, rvars, quic, node>>

\* mutant of TrySend: a full sync channel takes the notification all the same
TrySendGreedy(q, rx) == IF rx THEN "sent" ELSE "failed"

\* mutant of TrySend: a channel without its receiver takes the notification
TrySendIgnoresClose(q, rx) == IF Len(q) < SyncCap THEN "sent" ELSE "failed"

\* Sender::try_send: it fails on a full channel and on a closed one
TrySend(q, rx) == IF rx /\ Len(q) < SyncCap THEN "sent" ELSE "failed"

\* mutant of SyncResult: a call for a peer without a sink is an error
SyncResultStrict(s, out) == IF s # NoSink /\ out = "sent" THEN "Ok" ELSE "ChannelClogged"

\* what send_sync_notification returns: Ok without a sink, and
\* try_send(..).map_err(|_| NotificationError::ChannelClogged) with one
SyncResult(s, out) ==
    IF s = NoSink THEN "Ok"
    ELSE IF out = "sent" THEN "Ok"
    ELSE "ChannelClogged"

\* NotificationHandle::send_sync_notification
SendSyncNotification(p, m) ==
    /\ app.pc = "idle"
    /\ LET s   == peers[p]
           out == IF s = NoSink THEN "none"
                  ELSE TrySend(sinks[s].syncq, sinks[s].rx)
       IN /\ sinks' = IF out = "sent"
                      THEN [sinks EXCEPT ![s].syncq = Enqueue(@, m)]
                      ELSE sinks
          /\ nlast' = [NRet("send_sync_notification", p, SyncResult(s, out))
                          EXCEPT !.sink = s, !.msg = m]
    /\ UNCHANGED <<engine, events, commands, peers, app, rvars, quic, node>>

\* NotificationHandle::send_async_notification
SendAsyncNotification(p, m) ==
    /\ app.pc = "idle"
    /\ LET s   == peers[p]
           out == SendOutcome(sinks[s].asyncq, sinks[s].rx)
           ret == [NRet("send_async_notification", p, "")
                      EXCEPT !.sink = s, !.msg = m]
       IN IF s = NoSink
          THEN /\ nlast' = [ret EXCEPT !.res = "PeerDoesntExist"]
               /\ UNCHANGED <<sinks, app>>
          ELSE \/ /\ out = "closed"
                  /\ nlast' = [ret EXCEPT !.res = "PeerDoesntExist"]
                  /\ UNCHANGED <<sinks, app>>
               \/ /\ out = "sent"
                  /\ sinks' = [sinks EXCEPT ![s].asyncq = Enqueue(@, m)]
                  /\ nlast' = [ret EXCEPT !.res = "Ok"]
                  /\ UNCHANGED app
               \/ /\ out = "wait"
                  \* the async channel is full: the application is suspended
                  /\ app' = [app EXCEPT !.pc = "sending", !.peer = p, !.msg = m]
                  /\ nlast' = [ret EXCEPT !.res = "Pending"]
                  /\ UNCHANGED sinks
    /\ UNCHANGED <<engine, events, commands, peers, rvars, quic, node>>

\* mutant of AsyncSend: a call resumed on a sink whose writer task is gone
\* returns Ok
AsyncSendIgnoresClose ==
    /\ app.pc = "sending"
    /\ LET s   == peers[app.peer]
           out == SendOutcome(sinks[s].asyncq, sinks[s].rx)
           ret == [NRet("send_async_notification", app.peer, "")
                      EXCEPT !.sink = s, !.msg = app.msg, !.waited = TRUE]
       IN \/ /\ out = "closed"
             /\ nlast' = [ret EXCEPT !.res = "Ok"]
             /\ UNCHANGED sinks
          \/ /\ out = "sent"
             /\ sinks' = [sinks EXCEPT ![s].asyncq = Enqueue(@, app.msg)]
             /\ nlast' = [ret EXCEPT !.res = "Ok"]
    /\ app' = [app EXCEPT !.pc = "idle", !.peer = "", !.msg = ""]
    /\ UNCHANGED <<engine, events, commands, peers, rvars, quic, node>>

\* an application suspended in send_async_notification is resumed
AsyncSend ==
    /\ app.pc = "sending"
    /\ LET s   == peers[app.peer]
           out == SendOutcome(sinks[s].asyncq, sinks[s].rx)
           ret == [NRet("send_async_notification", app.peer, "")
                      EXCEPT !.sink = s, !.msg = app.msg, !.waited = TRUE]
       IN \/ /\ out = "closed"
             /\ nlast' = [ret EXCEPT !.res = "PeerDoesntExist"]
             /\ UNCHANGED sinks
          \/ /\ out = "sent"
             /\ sinks' = [sinks EXCEPT ![s].asyncq = Enqueue(@, app.msg)]
             /\ nlast' = [ret EXCEPT !.res = "Ok"]
    /\ app' = [app EXCEPT !.pc = "idle", !.peer = "", !.msg = ""]
    /\ UNCHANGED <<engine, events, commands, peers, rvars, quic, node>>

NextNotification ==
    \/ \E p \in Online : EngineInbound(p)
    \/ EngineCommand
    \/ \E p \in Online : EngineOpened(p)
    \/ \E p \in RemotePeers : EngineOpenFailed(p)
    \/ \E p \in RemotePeers : EngineClosed(p)
    \/ EngineReportSend
    \/ \E s \in DOMAIN sinks : ConsumeSync(s)
    \/ \E s \in DOMAIN sinks : ConsumeAsync(s)
    \/ PollNext
    \/ \E p \in RemotePeers : HandleOpenSubstream(p)
    \/ \E p \in RemotePeers : HandleCloseSubstream(p)
    \/ \E p \in RemotePeers, r \in {"Accept", "Reject"} : SendValidationResult(p, r)
    \/ CommandSend
    \/ \E p \in RemotePeers, m \in Notifications : SendSyncNotification(p, m)
    \/ \E p \in RemotePeers, m \in Notifications : SendAsyncNotification(p, m)
    \/ AsyncSend

SpecNotification == Init /\ [][NextNotification]_vars

\* ------------------------- notification protocol: a substream under validation
\* the state right after an inbound substream of the first online peer has
\* been reported: it is Validating, its ValidateSubstream is in the event
\* channel, nothing else has happened
ValidatingPeer == CHOOSE p \in Online : TRUE

InitValidation ==
    /\ phase = "config"
    /\ ctx = {}
    /\ chans = <<>>
    /\ conns = <<>>
    /\ handles = <<>>
    /\ last = Ret("init", 0, "", "")
    /\ cap = ChanCap
    /\ engine = [st |-> [p \in RemotePeers |->
                           IF p = ValidatingPeer THEN "Validating" ELSE "Closed"],
                 pc |-> "idle", pend |-> NoInnerEvent, hs |-> InitialHandshake,
                 sent |-> <<>>,
                 used |-> [p \in RemotePeers |-> ""]]
    /\ events = [q |-> <<InnerEvent("ValidateSubstream", ValidatingPeer, NoSink)>>,
                 rx |-> TRUE, tx |-> TRUE]
    /\ commands = [q |-> <<>>, rx |-> TRUE]
    /\ sinks = <<>>
    /\ peers = [p \in RemotePeers |-> NoSink]
    /\ app = [pc |-> "idle", op |-> "", pend |-> NoCommand, peer |-> "",
              msg |-> "", seen |-> [p \in RemotePeers |-> "None"]]
    /\ nlast = NRet("engine", "", "")
    /\ InitQuic
    /\ InitLitep2p

\* every peer can be dialed and can complete its handshake; no further
\* inbound substream arrives and no notification is sent
NextValidation ==
    \/ EngineCommand
    \/ \E p \in RemotePeers : EngineOpened(p)
    \/ \E p \in RemotePeers : EngineOpenFailed(p)
    \/ \E p \in RemotePeers : EngineClosed(p)
    \/ EngineReportSend
    \/ PollNext
    \/ \E p \in RemotePeers : HandleOpenSubstream(p)
    \/ \E p \in RemotePeers, r \in {"Accept", "Reject"} : SendValidationResult(p, r)
    \/ CommandSend

SpecValidation == InitValidation /\ [][NextValidation]_vars

\* ------------------------------- notification protocol: handshake updates
\* every peer can be dialed and can complete its handshake, and the
\* application may replace the handshake at any time; no notification is sent
NextHandshake ==
    \/ \E p \in Online : EngineInbound(p)
    \/ EngineCommand
    \/ \E p \in RemotePeers : EngineOpened(p)
    \/ \E p \in RemotePeers : EngineClosed(p)
    \/ EngineReportSend
    \/ PollNext
    \/ \E p \in RemotePeers : HandleOpenSubstream(p)
    \/ \E p \in RemotePeers : SendValidationResult(p, "Accept")
    \/ \E h \in Handshakes : SetHandshake(h)
    \/ CommandSend

SpecHandshake == Init /\ [][NextHandshake]_vars

\* ------------------------------- notification protocol: the event stream
\* the internal events an engine may report through NotificationEventHandle
StreamEvents ==
    {[InnerEvent("ValidateSubstream", p, NoSink) EXCEPT !.payload = h] :
        p \in RemotePeers, h \in Handshakes}
    \cup {[InnerEvent("NotificationStreamOpened", p, MaxSinks) EXCEPT !.payload = h] :
        p \in RemotePeers, h \in Handshakes}
    \cup {InnerEvent("NotificationStreamClosed", p, NoSink) : p \in RemotePeers}
    \cup {[InnerEvent("NotificationStreamOpenFailure", p, NoSink)
              EXCEPT !.payload = "error"] : p \in RemotePeers}
    \cup {[InnerEvent("NotificationReceived", p, NoSink) EXCEPT !.payload = n] :
        p \in RemotePeers, n \in Notifications}

\* NotificationEventHandle::report_*: `let _ = self.tx.send(event).await`, for
\* any event, the events handed to send being recorded in order
StreamSend(e) ==
    /\ engine.pc = "idle"
    /\ events.tx
    /\ Len(engine.sent) < MaxEvents
    /\ LET out == SendOutcome(events.q, events.rx)
       IN \/ /\ out = "closed"
             /\ engine' = [engine EXCEPT !.sent = Append(@, e)]
             /\ UNCHANGED events
          \/ /\ out = "sent"
             /\ engine' = [engine EXCEPT !.sent = Append(@, e)]
             /\ events' = [events EXCEPT !.q = Enqueue(@, e)]
          \/ /\ out = "wait"
             /\ engine' = [engine EXCEPT !.sent = Append(@, e),
                                         !.pc = "reporting", !.pend = e]
             /\ UNCHANGED events
    /\ nlast' = NRet("engine", "", "")
    /\ UNCHANGED <<commands, sinks, peers, app, rvars, quic, node>>

\* the NotificationEventHandle, the only sender of the event channel, is
\* dropped
SourceClose ==
    /\ engine.pc = "idle"
    /\ events.tx
    /\ events' = [events EXCEPT !.tx = FALSE]
    /\ nlast' = NRet("engine", "", "")
    /\ UNCHANGED <<engine, commands, sinks, peers, app, rvars, quic, node>>

\* NotificationHandle::poll_next, `None => return Poll::Ready(None)`:
\* poll_recv yields None once every sender is gone and the channel is empty
PollEnd ==
    /\ app.pc = "idle"
    /\ events.rx
    /\ events.q = <<>>
    /\ ~events.tx
    /\ nlast' = NRet("poll_next", "", "None")
    /\ UNCHANGED <<engine, events, commands, sinks, peers, app, rvars, quic, node>>

InitStream == InitOrder

NextStream ==
    \/ \E e \in StreamEvents : StreamSend(e)
    \/ EngineReportSend
    \/ SourceClose
    \/ PollNext
    \/ PollEnd

SpecStream == InitStream /\ [][NextStream]_vars

\* ------------------ notification protocol: the peer table under any events
\* the peer whose entry of the table is watched
TablePeer == CHOOSE p \in RemotePeers : TRUE

\* the events without a sink the engine may report for it, in any order
TableEvents ==
    {InnerEvent(t, TablePeer, NoSink) :
        t \in {"ValidateSubstream", "NotificationStreamClosed",
               "NotificationStreamOpenFailure", "NotificationReceived"}}

\* NotificationEventHandle::report_*: any event without a sink is reported,
\* whatever was reported for the peer before
TableReport(e) ==
    /\ engine.pc = "idle"
    /\ EngineReport(e, engine.st)
    /\ nlast' = NRet("engine", "", "")
    /\ UNCHANGED <<commands, sinks, peers, app, rvars, quic, node>>

\* NotificationEventHandle::report_notification_stream_opened with a sink
\* made for it, whatever was reported for the peer before
TableOpened(p) ==
    /\ engine.pc = "idle"
    /\ Len(sinks) < MaxSinks
    /\ sinks' = Append(sinks, NewSink(p))
    /\ EngineReport(InnerEvent("NotificationStreamOpened", p, Len(sinks) + 1),
                    engine.st)
    /\ nlast' = NRet("engine", "", "")
    /\ UNCHANGED <<commands, peers, app, rvars, quic, node>>

\* the notification and the handshake the application passes
TableNotification == CHOOSE m \in Notifications : TRUE
TableHandshake == CHOOSE h \in Handshakes : h # InitialHandshake

NextTable ==
    \/ \E e \in TableEvents : TableReport(e)
    \/ TableOpened(TablePeer)
    \/ EngineReportSend
    \/ EngineCommand
    \/ \E s \in DOMAIN sinks : ConsumeSync(s)
    \/ \E s \in DOMAIN sinks : ConsumeAsync(s)
    \/ PollNext
    \/ HandleOpenSubstream(TablePeer)
    \/ HandleCloseSubstream(TablePeer)
    \/ SetHandshake(TableHandshake)
    \/ SendValidationResult(TablePeer, "Reject")
    \/ CommandSend
    \/ SendSyncNotification(TablePeer, TableNotification)
    \/ SendAsyncNotification(TablePeer, TableNotification)
    \/ AsyncSend

SpecTable == Init /\ [][NextTable]_vars

\* --------------------------- notification protocol: the engine has exited
\* the engine's task ends: the receiver of the command channel is dropped
\* with the commands still queued, and so is the sender of the event channel
EngineExit ==
    /\ engine.pc = "idle"
    /\ commands.rx
    /\ engine' = [engine EXCEPT !.pc = "exited"]
    /\ commands' = [commands EXCEPT !.rx = FALSE, !.q = <<>>]
    /\ events' = [events EXCEPT !.tx = FALSE]
    /\ nlast' = NRet("engine", "", "")
    /\ UNCHANGED <<sinks, peers, app, rvars, quic, node>>

NextDeadEngine ==
    \/ \E p \in Online : EngineInbound(p)
    \/ EngineCommand
    \/ \E p \in RemotePeers : EngineOpened(p)
    \/ \E p \in RemotePeers : EngineClosed(p)
    \/ EngineReportSend
    \/ EngineExit
    \/ PollNext
    \/ PollEnd
    \/ \E p \in RemotePeers : HandleOpenSubstream(p)
    \/ \E p \in RemotePeers : HandleCloseSubstream(p)
    \/ \E p \in RemotePeers : SendValidationResult(p, "Accept")
    \/ SetHandshake(TableHandshake)
    \/ CommandSend

SpecDeadEngine == Init /\ [][NextDeadEngine]_vars

\* ------------------------------------------------------- QUIC transport
\* the addresses a Dial command may carry for transport u: its listen
\* address with its peer id, the same without a peer id, and an address
\* that is not a QUIC address
Addresses(u) ==
    {[proto |-> "quic-v1", to |-> u, peer |-> u],
     [proto |-> "quic-v1", to |-> u, peer |-> ""],
     [proto |-> "tcp", to |-> u, peer |-> u]}

\* QuicTransport::get_socket_address
GetSocketAddress(a) ==
    IF a.proto = "quic-v1"
    THEN [ok |-> TRUE, socket |-> a.to, peer |-> a.peer]
    ELSE [ok |-> FALSE, socket |-> "", peer |-> ""]

\* the transport manager sends TransportManagerCommand::Dial to transport t
QuicDial(t, a) ==
    /\ quic.issued < MaxDials
    /\ quic' = [quic EXCEPT
                  !.issued = @ + 1,
                  !.cmds[t] = Append(@, [address |-> a, connection |-> quic.issued + 1])]
    /\ UNCHANGED <<rvars, nvars, node>>

\* QuicTransport::start, the command arm, with QuicTransport::on_dial_peer
QuicOnDialPeer(t) ==
    /\ quic.cmds[t] # <<>>
    /\ LET c == Head(quic.cmds[t])
           r == GetSocketAddress(c.address)
       IN IF r.ok /\ r.peer # ""
          THEN quic' = [quic EXCEPT
                          !.cmds[t] = Tail(@),
                          !.dials[t] = @ \cup {c.connection},
                          !.pending[t] = @ \cup
                              {[side |-> "dial", id |-> c.connection,
                                att |-> Len(quic.net) + 1, res |-> "connecting"]},
                          !.net = Append(@, [from |-> t, to |-> r.socket,
                                             st |-> "sent"])]
          ELSE \* Err(PeerIdMissing): self.context.report_dial_failure
               quic' = [quic EXCEPT
                          !.cmds[t] = Tail(@),
                          !.events[t] = Append(@, [type |-> "DialFailure",
                                                   connection |-> c.connection])]
    /\ UNCHANGED <<rvars, nvars, node>>

\* QuicTransport::start, the accept arm, with QuicTransport::accept_connection
QuicAccept(t) ==
    /\ \E n \in DOMAIN quic.net :
          /\ quic.net[n].to = t
          /\ quic.net[n].st = "sent"
          /\ quic' = [quic EXCEPT
                        !.next[t] = @ + 1,
                        !.pending[t] = @ \cup
                            {[side |-> "accept", id |-> quic.next[t],
                              att |-> n, res |-> "connecting"]},
                        !.net[n].st = "accepting"]
    /\ UNCHANGED <<rvars, nvars, node>>

\* the pending connections of attempt n with their result set to r
Resolved(set, n, r) ==
    {IF x.att = n THEN [x EXCEPT !.res = r] ELSE x : x \in set}

\* `connection.await` of an attempt completes on both sides, with a
\* negotiated connection or with an error
QuicHandshake(n, r) ==
    /\ quic.net[n].st = "accepting"
    /\ quic' = [quic EXCEPT
                  !.net[n].st = "done",
                  !.pending = [t \in Transports |-> Resolved(quic.pending[t], n, r)]]
    /\ UNCHANGED <<rvars, nvars, node>>

\* QuicTransport::start, the pending_connections arm, with
\* QuicTransport::on_connection_established: the result is logged and dropped
QuicOnConnectionEstablished(t) ==
    /\ \E x \in quic.pending[t] :
          /\ x.res # "connecting"
          /\ quic' = [quic EXCEPT
                        !.pending[t] = @ \ {x},
                        !.handled[t] = @ \cup {x}]
    /\ UNCHANGED <<rvars, nvars, node>>

NextQuic ==
    \/ \E t \in Transports :
          \E u \in Transports \ {t} : \E a \in Addresses(u) : QuicDial(t, a)
    \/ \E t \in Transports : QuicOnDialPeer(t)
    \/ \E t \in Transports : QuicAccept(t)
    \/ \E n \in DOMAIN quic.net, r \in {"ok", "err"} : QuicHandshake(n, r)
    \/ \E t \in Transports : QuicOnConnectionEstablished(t)

SpecQuic == Init /\ [][NextQuic]_vars

\* ------------------------------------------------- Litep2p (src/new.rs)
MaxConnects == 2                 \* connection ids one node hands out
MaxOther == 1                    \* transport events of another kind
NoListener == "none"             \* the target of an address nobody listens on

\* the addresses handed to connect: their protocol stack and who listens
Multiaddrs ==
    {[stack |-> <<"ip4", "tcp">>, to |-> t] : t \in Nodes}
    \cup {[stack |-> s, to |-> NoListener] :
            s \in {<<"ip6", "tcp">>, <<"ip4", "udp">>, <<"dns", "tcp">>,
                   <<"ip4">>, <<"ip6", "tcp", "ws">>}}

\* Iterator::next on the protocol stack: the i-th protocol, "None" past the end
ProtocolAt(stack, i) == IF i <= Len(stack) THEN stack[i] ELSE "None"

\* TcpTransport::get_socket_address
TcpGetSocketAddress(a) ==
    IF ProtocolAt(a.stack, 1) \notin {"ip4", "ip6"} THEN "InvalidProtocol"
    ELSE IF ProtocolAt(a.stack, 2) # "tcp" THEN "InvalidProtocol"
    ELSE IF ProtocolAt(a.stack, 3) \notin {"p2p", "None"} THEN "InvalidProtocol"
    ELSE "Ok"

\* mutant of ConnectOutcome: only the first protocol of the stack is looked at
ConnectOutcomeFirstOnly(a) ==
    IF ProtocolAt(a.stack, 1) \notin {"ip4", "ip6"} THEN "TransportNotSupported"
    ELSE "Ok"

\* Litep2p::connect, its result: the two matches on the protocol stack, then
\* `?` on TcpTransport::open_connection
ConnectOutcome(a) ==
    IF ProtocolAt(a.stack, 1) \notin {"ip4", "ip6"} THEN "TransportNotSupported"
    ELSE IF ProtocolAt(a.stack, 2) # "tcp" THEN "TransportNotSupported"
    ELSE IF TcpGetSocketAddress(a) # "Ok" THEN "AddressError"
    ELSE "Ok"

\* the connection id TcpTransport::open_connection returns: a fresh one
OpenConnectionId(n) == node.next[n]

\* the events of the transport
TcpEvent(kind, peer, a) == [kind |-> kind, peer |-> peer, address |-> a]

\* Litep2p::connect(address) on node n
Connect(n, a) ==
    /\ node.next[n] < MaxConnects
    /\ a.to # n
    /\ LET res == ConnectOutcome(a)
           id == OpenConnectionId(n)
       IN  IF res = "Ok"
           THEN node' = [node EXCEPT
                           !.next[n] = @ + 1,
                           !.dials = @ \cup {[node |-> n, id |-> id, address |-> a]},
                           !.pending[n] = Insert(@, id, a),
                           !.last = LRet("connect", n, a, res)]
           ELSE node' = [node EXCEPT !.last = LRet("connect", n, a, res)]
    /\ UNCHANGED <<rvars, nvars, quic>>

\* the dial d of the transport ends: both ends learn of the connection when
\* a node listens on the address, the dialer learns of the failure otherwise
TcpDialDone(d) ==
    /\ d \in node.dials
    /\ IF d.address.to \in Nodes
       THEN node' = [node EXCEPT
                       !.dials = @ \ {d},
                       !.events = [@ EXCEPT
                          ![d.node] = Append(@, TcpEvent("ConnectionEstablished",
                                                         d.address.to, d.address)),
                          ![d.address.to] = Append(@, TcpEvent("ConnectionEstablished",
                                                               d.node, d.address))],
                       !.last = LRet("transport", d.node, d.address, "")]
       ELSE node' = [node EXCEPT
                       !.dials = @ \ {d},
                       !.events[d.node] = Append(@, TcpEvent("DialFailure", "", d.address)),
                       !.last = LRet("transport", d.node, d.address, "")]
    /\ UNCHANGED <<rvars, nvars, quic>>

\* the transport of node n emits an event of another kind
TcpOther(n) ==
    /\ node.other < MaxOther
    /\ node' = [node EXCEPT
                  !.other = @ + 1,
                  !.events[n] = Append(@, TcpEvent("Other", "", NoAddress)),
                  !.last = LRet("transport", n, NoAddress, "")]
    /\ UNCHANGED <<rvars, nvars, quic>>

\* mutant of Returns: every event of the transport ends the loop
ReturnsAll(e) == TRUE

\* Litep2p::next_event, its match: the kinds of event that end the loop
Returns(e) == e.kind \in {"ConnectionEstablished", "DialFailure"}

\* Litep2p::next_event on node n, one round of its loop: the next event of
\* the transport is returned, or it is logged and the loop goes on
Litep2pNextEvent(n) ==
    /\ node.events[n] # <<>>
    /\ LET e == Head(node.events[n])
       IN  IF Returns(e)
           THEN node' = [node EXCEPT
                           !.events[n] = Tail(@),
                           !.returned[n] = Append(@, e),
                           !.last = LRet("next_event", n, e.address, e.kind)]
           ELSE node' = [node EXCEPT
                           !.events[n] = Tail(@),
                           !.last = LRet("next_event", n, e.address, "")]
    /\ UNCHANGED <<rvars, nvars, quic>>

NextLitep2p ==
    \/ \E n \in Nodes, a \in Multiaddrs : Connect(n, a)
    \/ \E d \in node.dials : TcpDialDone(d)
    \/ \E n \in Nodes : TcpOther(n)
    \/ \E n \in Nodes : Litep2pNextEvent(n)

SpecLitep2p == Init /\ [][NextLitep2p]_vars

\* the runtime keeps driving the dials, and the application of every node
\* keeps calling next_event
FairLitep2p ==
    /\ SpecLitep2p
    /\ WF_vars(\E d \in node.dials : TcpDialDone(d))
    /\ \A n \in Nodes : WF_vars(Litep2pNextEvent(n))

\* ====================================================== checked properties
ReportOps == {"report_substream_open", "report_substream_open_failure"}

Established(c) == conns[c].pc \in {"ready", "sending", "closed"}

\* the events of connection c of the given type waiting in queue q
Waiting(q, c, type) == {i \in 1..Len(q) : q[i].conn = c /\ q[i].type = type}

\* the handles handler k received with ConnectionEstablished of connection c
Received(k, c) ==
    {h \in DOMAIN handles :
        handles[h].owner = k /\ handles[h].conn = c /\ handles[h].root = h}

\* C1: a report_substream_open(X, P1, ..) that returns Ok has appended exactly
\* one SubstreamOpened{peer: X, protocol: P1} to the channel that was created
\* for P1, and has left every other handler channel as it was.
C1_RoutingCorrectness ==
    [][ (last'.op = "report_substream_open" /\ last'.res = "Ok") =>
          LET c == last'.conn
              n == last'.name
          IN \E k \in DOMAIN chans :
               /\ chans[k].name = n
               /\ Len(chans'[k].q) = Len(chans[k].q) + 1
               /\ SubSeq(chans'[k].q, 1, Len(chans[k].q)) = chans[k].q
               /\ LET e == chans'[k].q[Len(chans'[k].q)]
                  IN /\ e.type = "SubstreamOpened"
                     /\ e.peer = conns[c].peer
                     /\ e.protocol = n
               /\ \A j \in DOMAIN chans : j # k => chans'[j] = chans[j] ]_vars

\* C1 witness: an Ok report on a router that serves two protocols
C1_Witness ==
    /\ last.op = "report_substream_open"
    /\ last.res = "Ok"
    /\ Cardinality(Keys(conns[last.conn].protocols)) = 2

\* C2 (as claimed): every id open_substream() hands out on a handle of a
\* (connection, protocol) pair, clones included, is larger than every id
\* handed out before for that pair, so no id is issued twice.
C2_IdsUniqueAcrossClones ==
    [][ \A h \in DOMAIN handles :
          (last'.op = "open_substream" /\ last'.h = h /\ ~last'.waited) =>
             \A r \in conns[handles[h].conn].issued :
                r.protocol = handles[h].protocol => r.id < last'.id ]_vars

\* C3: on a handle that was never cloned the k-th open_substream() returns
\* k-1, and a call that returns Ok has appended exactly one OpenSubstream
\* request with that id and the handle's protocol to the merged queue.
C3_SequentialIds ==
    [][ \A h \in DOMAIN handles :
          (last'.op = "open_substream" /\ last'.h = h /\ ~handles'[h].cloned) =>
             /\ last'.id = FirstSubstreamId + handles'[h].calls - 1
             /\ last'.res = "Ok" =>
                  LET c == handles[h].conn
                  IN /\ Len(conns'[c].reqq) = Len(conns[c].reqq) + 1
                     /\ SubSeq(conns'[c].reqq, 1, Len(conns[c].reqq)) = conns[c].reqq
                     /\ LET e == conns'[c].reqq[Len(conns'[c].reqq)]
                        IN /\ e.substream_id = last'.id
                           /\ e.protocol = handles[h].protocol
                           /\ e.protocol = chans[handles[h].owner].name ]_vars

\* C3 witness: the second call on a never-cloned handle has returned Ok
C3_Witness ==
    /\ last.op = "open_substream"
    /\ last.res = "Ok"
    /\ last.id = FirstSubstreamId + 1
    /\ ~handles[last.h].cloned

\* C4: add_protocol fails with ProtocolAlreadyExists exactly when the name was
\* registered before, succeeds otherwise, and no table ever holds two entries
\* for one name.
C4_DuplicateRegistration ==
    /\ \A n \in Names : Cardinality({e \in ctx : e[1] = n}) <= 1
    /\ \A c \in DOMAIN conns, n \in Names :
          Cardinality({e \in conns[c].protocols : e[1] = n}) <= 1
    /\ last.op = "add_protocol" =>
          LET before == \E j \in 1..(Len(chans) - 1) : chans[j].name = last.name
          IN /\ before => last.res = "ProtocolAlreadyExists"
             /\ ~before => last.res = "Ok"

\* C4 witness: a second registration of a name has been refused
C4_Witness ==
    /\ last.op = "add_protocol"
    /\ last.res = "ProtocolAlreadyExists"

\* C5 (as claimed): an add_protocol call that fails with ProtocolAlreadyExists
\* leaves the name -> channel table as it was.
C5_FailedRegistrationKeepsTable ==
    [][ (last'.op = "add_protocol" /\ last'.res = "ProtocolAlreadyExists") =>
          ctx' = ctx ]_vars

\* C6: a report for a protocol name the router has no entry for returns
\* ProtocolNotSupported, puts nothing on any handler channel and leaves the
\* router's table unchanged.
C6_UnknownProtocol ==
    [][ \A c \in DOMAIN conns :
          (/\ last'.op \in ReportOps
           /\ last'.conn = c
           /\ last'.name \notin Keys(conns[c].protocols)) =>
             /\ last'.res = "ProtocolNotSupported"
             /\ chans' = chans
             /\ conns'[c].protocols = conns[c].protocols
             /\ conns'[c].pc = "ready"
             /\ ctx' = ctx ]_vars

\* C6 witness: report_substream_open_failure was refused on a router that
\* does serve another protocol with a live handler
C6_Witness ==
    /\ last.op = "report_substream_open_failure"
    /\ last.res = "ProtocolNotSupported"
    /\ \E e \in conns[last.conn].protocols : chans[e[2]].rx

C8_EstablishedBroadcast ==
    /\ \A c \in DOMAIN conns : \A e \in conns[c].protocols :
          LET k == e[2]
              n == Cardinality(Waiting(chans[k].q, c, "ConnectionEstablished"))
                     + Cardinality(Received(k, c))
          IN /\ n <= 1
             /\ (Established(c) /\ chans[k].rx) => n = 1
             /\ \A i \in Waiting(chans[k].q, c, "ConnectionEstablished") :
                   /\ chans[k].q[i].peer = conns[c].peer
                   /\ chans[k].q[i].service =
                        [conn |-> c, protocol |-> e[1], next |-> 0]
    /\ (last.op = "handler_next_event" /\ last.res = "ConnectionEstablished") =>
          LET h == handles[Len(handles)]
          IN /\ h.conn = last.conn
             /\ h.protocol = chans[last.chan].name
             /\ h.next = 0
    /\ \A c \in DOMAIN conns : \A i \in 1..Len(conns[c].reqq) :
          LET r == conns[c].reqq[i]
          IN /\ handles[r.via].conn = c
             /\ handles[r.via].protocol = r.protocol
             /\ chans[handles[r.via].owner].name = r.protocol

\* C8 witness: a router serving two protocols whose handlers both hold the
\* handle they received, one of them with a request in the merged queue
C8_Witness ==
    \E c \in DOMAIN conns :
       /\ conns[c].pc = "ready"
       /\ Cardinality(conns[c].protocols) = 2
       /\ \A e \in conns[c].protocols :
             \E h \in Received(e[2], c) : handles[h].alive
       /\ conns[c].reqq # <<>>

\* C9 (as claimed): a handler that has exited is never fatal to the router:
\* establishing a connection does not fail while a handler of the table is
\* still running, and a report for a protocol whose handler is running does
\* not fail.
C9_ExitedHandlerNotFatal ==
    /\ \A c \in DOMAIN conns :
          conns[c].pc = "failed" =>
             \A e \in conns[c].protocols : ~chans[e[2]].rx
    /\ \A c \in DOMAIN conns :
          (last.op \in ReportOps /\ last.conn = c /\ last.res = "ChannelClosed") =>
             ~chans[last.chan].rx

\* C10: no handler channel ever holds more than its capacity; a report is
\* left pending only on a full channel; a pending report keeps its event
\* until it is resumed; and a report that returns Ok does so only when the
\* target channel had room, having appended its event to it exactly once
\* while every other channel is left as it was.
C10_NoDropUnderBackpressure ==
    [][ /\ \A k \in DOMAIN chans' : Len(chans'[k].q) <= ChanCap
        /\ \A c \in DOMAIN conns :
             /\ (last'.op \in ReportOps /\ last'.conn = c /\ last'.res = "Pending") =>
                  /\ conns'[c].pc = "sending"
                  /\ Len(chans[last'.chan].q) = ChanCap
                  /\ chans' = chans
             /\ (conns[c].pc = "sending" /\ conns'[c].pc = "sending") =>
                  /\ conns'[c].pend = conns[c].pend
                  /\ conns'[c].pendTo = conns[c].pendTo
             /\ (last'.op \in ReportOps /\ last'.conn = c /\ last'.res = "Ok") =>
                  LET k == last'.chan
                  IN /\ Len(chans[k].q) < ChanCap
                     /\ Len(chans'[k].q) = Len(chans[k].q) + 1
                     /\ SubSeq(chans'[k].q, 1, Len(chans[k].q)) = chans[k].q
                     /\ last'.waited =>
                          chans'[k].q[Len(chans'[k].q)] = conns[c].pend
                     /\ \A j \in DOMAIN chans : j # k => chans'[j] = chans[j] ]_vars

\* C10 witness: a report that was suspended on a full channel has returned Ok
C10_Witness ==
    /\ last.op = "report_substream_open"
    /\ last.res = "Ok"
    /\ last.waited

\* C11: a handler channel is a FIFO: its content changes only when a send of
\* the router puts one event behind the events already waiting, when its
\* handler takes an event, or when the handler exits; and the event a handler
\* takes is always the one that has waited longest, whatever was reported to
\* other handlers in between.
C11_FifoPerHandlerChannel ==
    [][ \A k \in DOMAIN chans :
          LET q  == chans[k].q
              q2 == chans'[k].q
          IN /\ q2 # q =>
                  \/ /\ last'.op \in ReportOps \cup {"from_transport_context"}
                     /\ last'.chan = k
                     /\ Len(q2) = Len(q) + 1
                     /\ SubSeq(q2, 1, Len(q)) = q
                  \/ /\ last'.op = "handler_next_event"
                     /\ last'.chan = k
                  \/ /\ last'.op = "handler_exit"
                     /\ last'.chan = k
             /\ (last'.op = "handler_next_event" /\ last'.chan = k) =>
                  /\ q # <<>>
                  /\ last'.ev = q[1]
                  /\ q2 = SubSeq(q, 2, Len(q)) ]_vars

\* C11 witness: a handler has taken an event of a connection while a later
\* event of the same connection waits behind it
C11_Witness ==
    /\ last.op = "handler_next_event"
    /\ chans[last.chan].q # <<>>
    /\ chans[last.chan].q[1].conn = last.ev.conn
    /\ last.ev.type = "SubstreamOpened"

\* C12: the merged request queue of a connection changes only when an
\* open_substream() that returns Ok puts its request behind the requests
\* already waiting, when next_event() takes a request, or when the router is
\* dropped; next_event() returns the request that has waited longest and
\* removes just that one, so a request is returned once and in entry order;
\* and every request in the queue was asked for by a handle of the connection.
C12_MergedQueueExact ==
    [][ \A c \in DOMAIN conns :
          LET q  == conns[c].reqq
              q2 == conns'[c].reqq
          IN /\ q2 # q =>
                  \/ /\ last'.op = "open_substream"
                     /\ last'.res = "Ok"
                     /\ last'.conn = c
                  \/ /\ last'.op = "next_event"
                     /\ last'.conn = c
                  \/ /\ last'.op = "drop_protocol_set"
                     /\ last'.conn = c
             /\ (last'.op = "open_substream" /\ last'.conn = c /\ last'.res = "Ok") =>
                  /\ Len(q2) = Len(q) + 1
                  /\ SubSeq(q2, 1, Len(q)) = q
                  /\ q2[Len(q2)] = [protocol |-> last'.name,
                                     substream_id |-> last'.id, via |-> last'.h]
             /\ (last'.op = "open_substream" /\ last'.conn = c /\ last'.res # "Ok") =>
                  q2 = q
             /\ (last'.op = "next_event" /\ last'.conn = c) =>
                  /\ q # <<>>
                  /\ q[1] = [protocol |-> last'.name,
                              substream_id |-> last'.id, via |-> last'.h]
                  /\ q2 = SubSeq(q, 2, Len(q))
             /\ \A i \in 1..Len(q2) :
                  /\ [protocol |-> q2[i].protocol, id |-> q2[i].substream_id]
                        \in conns'[c].issued
                  /\ handles'[q2[i].via].conn = c ]_vars

\* C12 witness: next_event() has returned the request of one handle while the
\* request another handle made later is still waiting
C12_Witness ==
    /\ last.op = "next_event"
    /\ conns[last.conn].reqq # <<>>
    /\ conns[last.conn].reqq[1].via # last.h

\* C13: an open_substream() call fails exactly when the receiving end of the
\* connection's merged queue has been dropped, and a dropped receiving end
\* never comes back, so after one failed call every later call on any handle
\* of the connection fails as well.
C13_FailsIffRouterGone ==
    [][ \A c \in DOMAIN conns :
          /\ (last'.op = "open_substream" /\ last'.conn = c) =>
               /\ last'.res \in {"Ok", "Pending", "ChannelClosed"}
               /\ last'.res = "ChannelClosed" <=> ~conns[c].rx
               /\ last'.res = "ChannelClosed" => conns'[c].reqq = conns[c].reqq
          /\ ~conns[c].rx => ~conns'[c].rx ]_vars

\* C13 witness: after the router was dropped, a handle that had made a
\* request that succeeded is refused
C13_Witness ==
    /\ last.op = "open_substream"
    /\ last.res = "ChannelClosed"
    /\ conns[last.conn].pc = "closed"
    /\ last.id > FirstSubstreamId

\* C14 (as claimed): the event a report sends in answer to the request with
\* id i lets the handler read i out of it, on success (SubstreamOpened with
\* Outbound(i)) and on failure (SubstreamOpenFailure) alike.
C14_ResultIdentifiesRequest ==
    [][ \A c \in DOMAIN conns :
          (/\ last'.op \in ReportOps
           /\ last'.conn = c
           /\ ~last'.waited
           /\ last'.res \in {"Ok", "Pending"}) =>
             LET k == last'.chan
                 e == IF last'.res = "Ok"
                      THEN chans'[k].q[Len(chans'[k].q)]
                      ELSE conns'[c].pend
             IN \A r \in conns[c].opened \ conns'[c].opened :
                   CorrelationId(e) = r.id ]_vars

\* C15 (as claimed): once an established connection has closed, every running
\* handler that took its ConnectionEstablished has taken a ConnectionClosed
\* for it or has one waiting in its channel (the router is gone by then, so
\* nothing can be sent for the connection later).
C15_ClosedBroadcast ==
    \A c \in DOMAIN conns :
       conns[c].pc = "closed" =>
          \A e \in conns[c].protocols :
             LET k == e[2]
             IN (chans[k].rx /\ Received(k, c) # {}) =>
                   \/ c \in chans[k].closed
                   \/ Waiting(chans[k].q, c, "ConnectionClosed") # {}

\* C16: whatever the application has polled so far, a peer is in the peer
\* table of the NotificationHandle exactly when the last lifecycle event
\* polled for it was NotificationStreamOpened (no NotificationStreamClosed and
\* no NotificationStreamOpenFailure for it has been polled since).
C16_SinkLifecycle ==
    \A p \in RemotePeers :
       peers[p] # NoSink <=> app.seen[p] = "NotificationStreamOpened"

\* C16 witness: the application has polled NotificationStreamClosed for a peer
\* it had a sink for, after it polled an open failure for another peer
C16_Witness ==
    /\ nlast.op = "poll_next"
    /\ nlast.res = "NotificationStreamClosed"
    /\ \E p \in RemotePeers : app.seen[p] = "NotificationStreamOpenFailure"

\* the lifecycle events of peer p the engine has emitted and the application
\* has not polled yet
InFlight(p) ==
    {i \in 1..Len(events.q) :
        events.q[i].peer = p /\ events.q[i].type \in Lifecycle}
      \cup (IF engine.pend.peer = p /\ engine.pend.type \in Lifecycle
            THEN {0} ELSE {})

\* C17 (as claimed): in every reachable state a peer has a sink in the peer
\* table exactly when the engine considers its substream Open.
C17_SinkIffOpen ==
    \A p \in RemotePeers : peers[p] # NoSink <=> engine.st[p] = "Open"

\* C17 (amended): the peer table follows the engine through the event
\* channel. A sink in the table is one the engine made for that peer; while
\* no lifecycle event of the peer is on its way to the application the peer
\* is in the table exactly when the engine considers its substream Open, with
\* the sink the engine made last; and a sink leaves the table only in the
\* poll that returns the peer's NotificationStreamClosed, after the engine has
\* left Open.
C17_SinkFollowsEngine ==
    [][ \A p \in RemotePeers :
          /\ peers'[p] # NoSink =>
                /\ peers'[p] \in DOMAIN sinks'
                /\ sinks'[peers'[p]].peer = p
          /\ (InFlight(p))' = {} =>
                /\ peers'[p] # NoSink <=> engine'.st[p] = "Open"
                /\ peers'[p] # NoSink => sinks'[peers'[p]].rx
          /\ (peers[p] # NoSink /\ peers'[p] = NoSink) =>
                /\ nlast'.op = "poll_next"
                /\ nlast'.res = "NotificationStreamClosed"
                /\ nlast'.peer = p
                /\ ~sinks[peers[p]].rx ]_vars

\* C17 witness: the engine has closed the substream of a peer whose sink is
\* still in the peer table, the NotificationStreamClosed waiting to be polled
C17_Witness ==
    \E p \in RemotePeers :
       /\ engine.st[p] = "Closed"
       /\ peers[p] # NoSink
       /\ InFlight(p) # {}

\* C18: for a peer that has no sink in the peer table send_sync_notification
\* returns Ok and send_async_notification returns PeerDoesntExist; both
\* return at once, put nothing on any sink channel, and leave the peer table,
\* the command channel and the event channel as they were.
C18_NoSinkNoSend ==
    [][ (/\ nlast'.op \in {"send_sync_notification", "send_async_notification"}
         /\ peers[nlast'.peer] = NoSink) =>
           /\ nlast'.op = "send_sync_notification" => nlast'.res = "Ok"
           /\ nlast'.op = "send_async_notification" =>
                 nlast'.res = "PeerDoesntExist"
           /\ sinks' = sinks
           /\ peers' = peers
           /\ commands' = commands
           /\ events' = events
           /\ app' = app ]_vars

\* C18 witness: send_async_notification was refused for a peer whose
\* substream is being opened, while another peer has a sink in the table
C18_Witness ==
    /\ nlast.op = "send_async_notification"
    /\ nlast.res = "PeerDoesntExist"
    /\ peers[nlast.peer] = NoSink
    /\ engine.st[nlast.peer] = "Opening"
    /\ \E p \in RemotePeers : peers[p] # NoSink

\* C19: a sync channel never holds more than SyncCap notifications, and a
\* send_sync_notification call to a peer whose sink is live returns Ok
\* exactly when the channel holds fewer than SyncCap, putting its
\* notification behind those already queued, and returns ChannelClogged
\* otherwise, leaving the channel as it was; it never suspends the caller.
\* Starting from an empty channel with nothing drained in between, the first
\* SyncCap calls therefore succeed in call order and every further call is
\* refused.
C19_SyncBackpressure ==
    [][ /\ \A s \in DOMAIN sinks' : Len(sinks'[s].syncq) <= SyncCap
        /\ nlast'.op = "send_sync_notification" =>
              /\ app' = app
              /\ app.pc = "idle"
              /\ nlast'.res \in {"Ok", "ChannelClogged"}
        /\ \A s \in DOMAIN sinks :
              (/\ nlast'.op = "send_sync_notification"
               /\ nlast'.sink = s
               /\ sinks[s].rx) =>
                 /\ nlast'.res = "Ok" <=> Len(sinks[s].syncq) < SyncCap
                 /\ nlast'.res = "Ok" =>
                       sinks' = [sinks EXCEPT ![s].syncq = Append(@, nlast'.msg)]
                 /\ nlast'.res = "ChannelClogged" => sinks' = sinks ]_vars

\* C19 witness: a call is refused on a live sink whose sync channel holds
\* SyncCap notifications, two different ones, none of them drained
C19_Witness ==
    /\ nlast.op = "send_sync_notification"
    /\ nlast.res = "ChannelClogged"
    /\ nlast.sink # NoSink
    /\ sinks[nlast.sink].rx
    /\ Len(sinks[nlast.sink].syncq) = SyncCap
    /\ sinks[nlast.sink].syncq[1] # sinks[nlast.sink].syncq[SyncCap]

C21_DisconnectWakesSender ==
    /\ [](app.pc = "sending" =>
            /\ peers[app.peer] # NoSink
            /\ ~sinks[peers[app.peer]].rx => ENABLED AsyncSend)
    /\ [][ /\ (app.pc = "sending" /\ app'.pc # "sending") =>
                /\ nlast'.op = "send_async_notification"
                /\ nlast'.waited
                /\ nlast'.peer = app.peer
                /\ nlast'.msg = app.msg
                /\ nlast'.sink = peers[app.peer]
           /\ (/\ nlast'.op = "send_async_notification"
               /\ nlast'.waited
               /\ ~sinks[nlast'.sink].rx) =>
                 /\ nlast'.res = "PeerDoesntExist"
                 /\ sinks' = sinks
                 /\ app'.pc = "idle" ]_vars

\* C21 witness: a call that was suspended on a full async channel has
\* returned PeerDoesntExist, the writer task of its sink having ended
C21_Witness ==
    /\ nlast.op = "send_async_notification"
    /\ nlast.waited
    /\ nlast.res = "PeerDoesntExist"
    /\ ~sinks[nlast.sink].rx

\* the NotificationStreamOpened events of peer p the engine has emitted and
\* the application has not polled yet
OpenedWaiting(p) ==
    {i \in 1..Len(events.q) :
        events.q[i].peer = p /\ events.q[i].type = "NotificationStreamOpened"}
      \cup (IF engine.pend.peer = p
               /\ engine.pend.type = "NotificationStreamOpened"
            THEN {0} ELSE {})

\* C22: send_validation_result(peer, verdict) sends the engine exactly the
\* verdict the application passed. A substream leaves Validating only when the
\* engine takes a verdict command for its peer, to Opening on Accept and to
\* Closed on Reject, and that step emits no event. NotificationStreamOpened
\* for a peer is emitted only on the step Opening -> Open, and Opening is
\* entered only from Validating by Accept or from Closed by an OpenSubstream
\* command: no NotificationStreamOpened is emitted for a substream that is
\* being validated or was rejected.
C22_ValidationGate ==
    [][ /\ nlast'.op = "send_validation_result" =>
             LET c == Command("SubstreamValidated", nlast'.peer, nlast'.msg)
             IN /\ nlast'.msg \in {"Accept", "Reject"}
                /\ (nlast'.res = "Ok" /\ commands.rx) =>
                      commands'.q = Append(commands.q, c)
                /\ nlast'.res = "Pending" =>
                      (app'.pend = c /\ commands' = commands)
                /\ nlast'.waited => app.pend = c
        /\ \A p \in RemotePeers :
             /\ (engine.st[p] = "Validating" /\ engine'.st[p] # "Validating") =>
                   /\ commands.q # <<>>
                   /\ Head(commands.q).type = "SubstreamValidated"
                   /\ Head(commands.q).peer = p
                   /\ commands'.q = Tail(commands.q)
                   /\ engine'.st[p] = IF Head(commands.q).result = "Accept"
                                      THEN "Opening" ELSE "Closed"
                   /\ events' = events
                   /\ engine'.pend = engine.pend
             /\ Cardinality(OpenedWaiting(p)') > Cardinality(OpenedWaiting(p)) =>
                   (engine.st[p] = "Opening" /\ engine'.st[p] = "Open")
             /\ (engine.st[p] # "Opening" /\ engine'.st[p] = "Opening") =>
                   /\ commands.q # <<>>
                   /\ commands'.q = Tail(commands.q)
                   /\ \/ /\ engine.st[p] = "Validating"
                         /\ Head(commands.q) =
                               Command("SubstreamValidated", p, "Accept")
                      \/ /\ engine.st[p] = "Closed"
                         /\ Head(commands.q) = Command("OpenSubstream", p, "") ]_vars

\* C22 witness: the engine has just applied the application's Accept to a
\* substream that was being validated, which is now Opening
C22_Witness ==
    /\ nlast.op = "engine"
    /\ nlast.msg = "Accept"
    /\ nlast.peer \in RemotePeers
    /\ engine.st[nlast.peer] = "Opening"

\* C23: a substream that is Validating holds up nothing but itself. While
\* some peer awaits its verdict and the engine is not suspended, the engine
\* can take the next command, complete or fail the handshake of any other
\* peer that is Opening and close any other peer that is Open; such a step
\* leaves the waiting peer Validating. send_validation_result sends its
\* verdict whatever the peer table holds, and a verdict the engine takes for a
\* Validating peer is applied, whatever the other peers' states, and moves no
\* other peer.
C23_ValidatingBlocksOnlyItself ==
    /\ [](\A p \in RemotePeers :
            (engine.st[p] = "Validating" /\ engine.pc = "idle") =>
               /\ commands.q # <<>> => ENABLED EngineCommand
               /\ \A o \in RemotePeers \ {p} :
                     /\ (engine.st[o] = "Opening" /\ Len(sinks) < MaxSinks) =>
                           ENABLED EngineOpened(o)
                     /\ engine.st[o] = "Opening" => ENABLED EngineOpenFailed(o)
                     /\ engine.st[o] = "Open" => ENABLED EngineClosed(o))
    /\ [][ /\ nlast'.op = "send_validation_result" =>
                /\ nlast'.res \in {"Ok", "Pending"}
                /\ (nlast'.res = "Ok" /\ commands.rx) =>
                      /\ Len(commands'.q) = Len(commands.q) + 1
                      /\ commands'.q[Len(commands'.q)].type = "SubstreamValidated"
                      /\ commands'.q[Len(commands'.q)].peer = nlast'.peer
           /\ \A p \in RemotePeers :
                /\ (/\ engine.st[p] = "Validating"
                    /\ commands.q # <<>>
                    /\ commands'.q = Tail(commands.q)
                    /\ Head(commands.q).type = "SubstreamValidated"
                    /\ Head(commands.q).peer = p) =>
                      /\ engine'.st[p] \in {"Opening", "Closed"}
                      /\ engine'.st[p] = "Opening" <=>
                            Head(commands.q).result = "Accept"
                      /\ \A o \in RemotePeers \ {p} :
                            engine'.st[o] = engine.st[o]
                /\ (/\ engine.st[p] = "Validating"
                    /\ \E o \in RemotePeers \ {p} :
                          engine'.st[o] # engine.st[o]) =>
                      engine'.st[p] = "Validating" ]_vars

\* C23 witness: the engine has just applied the verdict of the peer that was
\* Validating from the start, and meanwhile another peer, dialed by the
\* application, has reached Open and been announced to the application
C23_Witness ==
    /\ nlast.op = "engine"
    /\ nlast.peer = ValidatingPeer
    /\ nlast.msg \in {"Accept", "Reject"}
    /\ \E o \in RemotePeers \ {ValidatingPeer} :
          /\ engine.st[o] = "Open"
          /\ peers[o] # NoSink
          /\ app.seen[o] = "NotificationStreamOpened"

\* the NotificationStreamClosed events of peer p the engine has emitted and
\* the application has not polled yet
ClosedWaiting(p) ==
    {i \in 1..Len(events.q) :
        events.q[i].peer = p /\ events.q[i].type = "NotificationStreamClosed"}
      \cup (IF engine.pend.peer = p
               /\ engine.pend.type = "NotificationStreamClosed"
            THEN {0} ELSE {})

\* C24: for every peer the NotificationStreamOpened and
\* NotificationStreamClosed events the application polls alternate, starting
\* with NotificationStreamOpened. When the application polls
\* NotificationStreamOpened for a peer, the last lifecycle event it saw for
\* that peer was not NotificationStreamOpened and the peer is not in its
\* table; when it polls NotificationStreamClosed, the last lifecycle event it
\* saw for that peer was NotificationStreamOpened and the peer is in its
\* table. The engine emits NotificationStreamClosed only for a peer it held
\* Open.
C24_OpenedClosedAlternate ==
    [][ /\ (nlast'.op = "poll_next" /\ nlast'.res = "NotificationStreamOpened") =>
              /\ app.seen[nlast'.peer] # "NotificationStreamOpened"
              /\ peers[nlast'.peer] = NoSink
              /\ app'.seen[nlast'.peer] = "NotificationStreamOpened"
        /\ (nlast'.op = "poll_next" /\ nlast'.res = "NotificationStreamClosed") =>
              /\ app.seen[nlast'.peer] = "NotificationStreamOpened"
              /\ peers[nlast'.peer] # NoSink
              /\ app'.seen[nlast'.peer] = "NotificationStreamClosed"
        /\ \A p \in RemotePeers :
              Cardinality(ClosedWaiting(p)') > Cardinality(ClosedWaiting(p)) =>
                 (engine.st[p] = "Open" /\ engine'.st[p] = "Closed") ]_vars

\* C24 witness: the application polls NotificationStreamOpened for a peer
\* for the second time, having polled its NotificationStreamClosed in between
C24_Witness ==
    /\ nlast.op = "poll_next"
    /\ nlast.res = "NotificationStreamOpened"
    /\ peers[nlast.peer] = MaxSinks
    /\ \E s \in DOMAIN sinks :
          s # peers[nlast.peer] /\ sinks[s].peer = nlast.peer

\* the NotificationStreamOpenFailure events of peer p the engine has emitted
\* and the application has not polled yet
FailureWaiting(p) ==
    {i \in 1..Len(events.q) :
        events.q[i].peer = p
        /\ events.q[i].type = "NotificationStreamOpenFailure"}
      \cup (IF engine.pend.peer = p
               /\ engine.pend.type = "NotificationStreamOpenFailure"
            THEN {0} ELSE {})

\* C25: an open attempt ends with exactly one of NotificationStreamOpened and
\* NotificationStreamOpenFailure: the step on which a substream leaves Opening
\* emits one lifecycle event for its peer, NotificationStreamOpened on the way
\* to Open or NotificationStreamOpenFailure on the way to Closed, and neither
\* is emitted on any other step. Polling NotificationStreamOpenFailure leaves
\* the peer table as it was, without the peer; while that is the last
\* lifecycle event the application saw for the peer, the peer is not in the
\* table and open_substream(peer) is not refused but sends its
\* OpenSubstream command. The engine starts no attempt by itself: a
\* substream becomes Opening only when the engine takes a command.
C25_OneOutcomePerAttempt ==
    /\ [](\A p \in RemotePeers :
            app.seen[p] = "NotificationStreamOpenFailure" => peers[p] = NoSink)
    /\ [][ /\ \A p \in RemotePeers :
                /\ (engine.st[p] = "Opening" /\ engine'.st[p] # "Opening") =>
                      /\ engine'.st[p] \in {"Open", "Closed"}
                      /\ Cardinality(InFlight(p)') = Cardinality(InFlight(p)) + 1
                      /\ IF engine'.st[p] = "Open"
                         THEN Cardinality(OpenedWaiting(p)') =
                                 Cardinality(OpenedWaiting(p)) + 1
                         ELSE Cardinality(FailureWaiting(p)') =
                                 Cardinality(FailureWaiting(p)) + 1
                /\ Cardinality(FailureWaiting(p)') > Cardinality(FailureWaiting(p)) =>
                      (engine.st[p] = "Opening" /\ engine'.st[p] = "Closed")
                /\ Cardinality(OpenedWaiting(p)') > Cardinality(OpenedWaiting(p)) =>
                      (engine.st[p] = "Opening" /\ engine'.st[p] = "Open")
                /\ (engine.st[p] # "Opening" /\ engine'.st[p] = "Opening") =>
                      (commands.q # <<>> /\ commands'.q = Tail(commands.q))
           /\ (/\ nlast'.op = "poll_next"
               /\ nlast'.res = "NotificationStreamOpenFailure") =>
                 /\ peers' = peers
                 /\ peers[nlast'.peer] = NoSink
           /\ (/\ nlast'.op = "open_substream"
               /\ ~nlast'.waited
               /\ app.seen[nlast'.peer] = "NotificationStreamOpenFailure") =>
                 /\ nlast'.res \in {"Ok", "Pending"}
                 /\ (nlast'.res = "Ok" /\ commands.rx) =>
                       commands'.q = Append(commands.q,
                                       Command("OpenSubstream", nlast'.peer, ""))
                 /\ nlast'.res = "Pending" =>
                       app'.pend = Command("OpenSubstream", nlast'.peer, "") ]_vars

\* C25 witness: the application has seen a peer's open attempt fail and its
\* next open_substream for that peer has been accepted
C25_Witness ==
    /\ nlast.op = "open_substream"
    /\ nlast.res = "Ok"
    /\ app.seen[nlast.peer] = "NotificationStreamOpenFailure"
    /\ peers[nlast.peer] = NoSink
    /\ commands.q # <<>>
    /\ commands.q[Len(commands.q)] = Command("OpenSubstream", nlast.peer, "")

\* C26: set_handshake(h) sends the engine exactly one SetHandshake{h} and
\* changes nothing else: peer table, sinks, event channel and engine are as
\* they were. When the engine takes the command it replaces the handshake for
\* later attempts and touches no substream, sink or event. The handshake of
\* a substream is the one current when its attempt started (dialed, or
\* accepted by the validator), and stays with it: substreams already Opening
\* or Open keep theirs.
C26_SetHandshakeFrame ==
    [][ /\ nlast'.op = "set_handshake" =>
             LET c == [Command("SetHandshake", "", "")
                          EXCEPT !.handshake = nlast'.msg]
             IN /\ nlast'.msg \in Handshakes
                /\ nlast'.res \in {"Ok", "Pending"}
                /\ peers' = peers
                /\ sinks' = sinks
                /\ events' = events
                /\ engine' = engine
                /\ (nlast'.res = "Ok" /\ commands.rx) =>
                      commands'.q = Append(commands.q, c)
                /\ nlast'.res = "Pending" =>
                      (app'.pend = c /\ commands' = commands)
                /\ nlast'.waited => app.pend = c
        /\ (/\ commands.q # <<>>
            /\ commands'.q = Tail(commands.q)
            /\ Head(commands.q).type = "SetHandshake") =>
              /\ engine' = [engine EXCEPT !.hs = Head(commands.q).handshake]
              /\ events' = events
              /\ sinks' = sinks
              /\ peers' = peers
        /\ engine'.hs # engine.hs =>
              /\ commands.q # <<>>
              /\ Head(commands.q).type = "SetHandshake"
        /\ \A p \in RemotePeers :
              /\ (engine.st[p] # "Opening" /\ engine'.st[p] = "Opening") =>
                    engine'.used[p] = engine.hs
              /\ engine'.used[p] # engine.used[p] =>
                    (engine.st[p] # "Opening" /\ engine'.st[p] = "Opening") ]_vars

\* C26 witness: a substream opened with the first handshake is still Open and
\* in the peer table after the handshake was replaced, and a substream of
\* another peer, started afterwards, uses the new handshake
C26_Witness ==
    \E p, o \in RemotePeers :
       /\ p # o
       /\ engine.st[p] = "Open"
       /\ peers[p] # NoSink
       /\ sinks[peers[p]].rx
       /\ engine.used[p] = InitialHandshake
       /\ engine.hs # InitialHandshake
       /\ engine.st[o] \in {"Opening", "Open"}
       /\ engine.used[o] = engine.hs

\* C27: open_substream(peer) for a peer in the peer table returns
\* PeerAlreadyExists and sends nothing; for a peer not in the table it puts
\* exactly one OpenSubstream{peer} at the tail of the command channel and
\* returns Ok, being suspended first, with that command in hand, exactly when
\* the channel is full. The call never changes the peer table.
C27_OpenSubstreamGuard ==
    [][ nlast'.op = "open_substream" =>
          LET p == nlast'.peer
              c == Command("OpenSubstream", p, "")
          IN /\ peers' = peers
             /\ sinks' = sinks
             /\ events' = events
             /\ nlast'.res \in {"Ok", "Pending", "PeerAlreadyExists"}
             /\ ~nlast'.waited =>
                   /\ nlast'.res = "PeerAlreadyExists" <=> peers[p] # NoSink
                   /\ (nlast'.res = "Pending" /\ commands.rx) =>
                         Len(commands.q) = cap
                   /\ (nlast'.res = "Ok" /\ commands.rx) => Len(commands.q) < cap
             /\ nlast'.res = "PeerAlreadyExists" =>
                   (commands' = commands /\ app' = app)
             /\ nlast'.res = "Pending" =>
                   /\ commands' = commands
                   /\ app'.pc = "commanding"
                   /\ app'.pend = c
             /\ nlast'.waited => (nlast'.res = "Ok" /\ app.pend = c)
             /\ (nlast'.res = "Ok" /\ commands.rx) =>
                   /\ commands'.q = Append(commands.q, c)
                   /\ app'.pc = "idle" ]_vars

\* C27 witness: open_substream for a peer whose substream is open and in the
\* table has been refused, the command channel being empty
C27_Witness ==
    /\ nlast.op = "open_substream"
    /\ nlast.res = "PeerAlreadyExists"
    /\ peers[nlast.peer] # NoSink
    /\ engine.st[nlast.peer] = "Open"
    /\ commands.q = <<>>

\* C28: close_substream(peer) for a peer that is not in the peer table does
\* nothing and sends nothing; for a peer in the table it puts exactly one
\* CloseSubstream{peer} at the tail of the command channel, being suspended
\* first exactly when the channel is full. The call itself never changes the
\* peer table: a peer leaves the table only on the step that polls its
\* NotificationStreamClosed.
C28_CloseSubstreamFrame ==
    [][ /\ nlast'.op = "close_substream" =>
             LET p == nlast'.peer
                 c == Command("CloseSubstream", p, "")
             IN /\ peers' = peers
                /\ sinks' = sinks
                /\ events' = events
                /\ engine' = engine
                /\ (~nlast'.waited /\ peers[p] = NoSink) =>
                      /\ nlast'.res = ""
                      /\ commands' = commands
                      /\ app' = app
                /\ (~nlast'.waited /\ peers[p] # NoSink) =>
                      /\ nlast'.res \in {"Ok", "Pending"}
                      /\ commands.rx =>
                            (nlast'.res = "Pending" <=> Len(commands.q) = cap)
                /\ nlast'.res = "Pending" =>
                      /\ commands' = commands
                      /\ app'.pc = "commanding"
                      /\ app'.pend = c
                /\ nlast'.waited => (nlast'.res = "Ok" /\ app.pend = c)
                /\ (nlast'.res = "Ok" /\ commands.rx) =>
                      /\ commands'.q = Append(commands.q, c)
                      /\ app'.pc = "idle"
        /\ \A p \in RemotePeers :
              (peers[p] # NoSink /\ peers'[p] = NoSink) =>
                 /\ nlast'.op = "poll_next"
                 /\ nlast'.res = "NotificationStreamClosed"
                 /\ nlast'.peer = p ]_vars

\* C28 witness: close_substream for a peer in the table has sent its
\* command, and the peer is in the table as before
C28_Witness ==
    /\ nlast.op = "close_substream"
    /\ nlast.res = "Ok"
    /\ peers[nlast.peer] # NoSink
    /\ commands.q = <<Command("CloseSubstream", nlast.peer, "")>>

\* how many of the reported events the application has polled: those reported
\* that neither wait in the event channel nor in a suspended report
Polled ==
    Len(engine.sent) - Len(events.q) - (IF engine.pc = "reporting" THEN 1 ELSE 0)

\* the event source is closed and drained
SourceDrained == ~events.tx /\ events.q = <<>>

\* C29: the public events are the reported internal events, one for one and
\* in order: the k-th event the application polls is the k-th event the
\* engine reported, with the same variant, peer and payload and without the
\* sink, which goes into the peer table when the variant is
\* NotificationStreamOpened. The stream can end exactly when the event source
\* is closed and drained, and it ends only after every reported event was
\* polled.
C29_PublicStreamIsInternalStream ==
    /\ [](app.pc = "idle" => (ENABLED PollEnd <=> SourceDrained))
    /\ [](Polled \in 0..Len(engine.sent))
    /\ [][ /\ (nlast'.op = "poll_next" /\ nlast'.res # "None") =>
                LET e == engine.sent[Polled + 1]
                IN /\ Polled < Len(engine.sent)
                   /\ Polled' = Polled + 1
                   /\ nlast'.res = e.type
                   /\ nlast'.peer = e.peer
                   /\ nlast'.ev.type = e.type
                   /\ nlast'.ev.peer = e.peer
                   /\ nlast'.ev.payload = e.payload
                   /\ nlast'.ev.sink = NoSink
                   /\ e.type = "NotificationStreamOpened" =>
                         peers'[e.peer] = e.sink
           /\ (nlast'.op = "poll_next" /\ nlast'.res = "None") =>
                /\ SourceDrained
                /\ Polled = Len(engine.sent)
                /\ UNCHANGED <<engine, events, peers, app>>
           /\ nlast'.op # "poll_next" => Polled' = Polled ]_vars

\* C29 witness: the stream has ended after the application polled three
\* reported events of three variants, the last one with its payload
C29_Witness ==
    /\ nlast.op = "poll_next"
    /\ nlast.res = "None"
    /\ Len(engine.sent) = MaxEvents
    /\ Polled = MaxEvents
    /\ engine.sent[1].type = "NotificationStreamOpened"
    /\ engine.sent[2].type = "NotificationReceived"
    /\ engine.sent[MaxEvents].type = "NotificationStreamClosed"
    /\ peers[engine.sent[1].peer] = NoSink
    /\ engine.sent[1].peer = engine.sent[MaxEvents].peer

\* C30 (as claimed, its final result): once a transport has handled the
\* negotiated connection of a dial to a listening transport, it has emitted
\* ConnectionEstablished to its transport manager, the dialing transport as
\* well as the listening one.
C30_EstablishedReported ==
    \A t \in Transports :
       \A x \in quic.handled[t] :
          x.res = "ok" =>
             \E i \in 1..Len(quic.events[t]) :
                quic.events[t][i].type = "ConnectionEstablished"

\* the protocol stack of the address begins with ip4 or ip6 followed by tcp
BeginsIpTcp(a) ==
    /\ ProtocolAt(a.stack, 1) \in {"ip4", "ip6"}
    /\ ProtocolAt(a.stack, 2) = "tcp"

\* connect returned Ok for a dial of address a on node n
Accepted(n, a) == \E e \in node.pending[n] : e[2] = a

\* next_event of node n has returned event e
Returned(n, e) == \E i \in DOMAIN node.returned[n] : node.returned[n][i] = e

\* the outcome of the dial of address a by node n has been returned
Reported(n, a) ==
    IF a.to \in Nodes
    THEN /\ Returned(n, TcpEvent("ConnectionEstablished", a.to, a))
         /\ Returned(a.to, TcpEvent("ConnectionEstablished", n, a))
    ELSE Returned(n, TcpEvent("DialFailure", "", a))

C32_ConnectGate ==
    [][\A n \in Nodes : \A a \in Multiaddrs :
          Connect(n, a) =>
            /\ ~BeginsIpTcp(a) =>
                 /\ node'.last.res = "TransportNotSupported"
                 /\ node'.dials = node.dials
                 /\ node'.pending = node.pending
            /\ node'.last.res = "Ok" =>
                 /\ \E id \in 0..MaxConnects :
                       /\ id \notin Keys(node.pending[n])
                       /\ node'.pending[n] = node.pending[n] \cup {<<id, a>>}
                 /\ Cardinality(node'.dials) = Cardinality(node.dials) + 1
                 /\ \A m \in Nodes \ {n} : node'.pending[m] = node.pending[m]]_vars

C32_Witness ==
    /\ node.last.op = "connect"
    /\ node.last.res = "TransportNotSupported"
    /\ ProtocolAt(node.last.address.stack, 1) = "ip4"
    /\ Cardinality(node.pending[node.last.node]) = MaxConnects - 1
    /\ node.dials # {}

\* the driver of connection c is suspended in a report operation on the
\* channel of a handler that is itself suspended in open_substream on the
\* merged queue of c
MutualWait(c, h) ==
    /\ conns[c].pc = "sending"
    /\ handles[h].alive
    /\ handles[h].conn = c
    /\ handles[h].pend # NoId
    /\ handles[h].owner = conns[c].pendTo
    /\ SendOutcome(chans[conns[c].pendTo].q, chans[conns[c].pendTo].rx) = "wait"
    /\ SendOutcome(conns[c].reqq, conns[c].rx) = "wait"

\* C33: the driver of a connection is never suspended in report_substream_open
\* or report_substream_open_failure on the full channel of a handler while
\* that handler is suspended in open_substream on the full merged queue
C33_NoDriverHandlerDeadlock ==
    \A c \in DOMAIN conns : \A h \in DOMAIN handles : ~MutualWait(c, h)

\* the application is suspended in send of a command on the full command
\* channel, or of an asynchronous notification on the full channel of a sink
AppSuspended ==
    \/ /\ app.pc = "commanding"
       /\ SendOutcome(commands.q, commands.rx) = "wait"
    \/ /\ app.pc = "sending"
       /\ peers[app.peer] # NoSink
       /\ SendOutcome(sinks[peers[app.peer]].asyncq, sinks[peers[app.peer]].rx) = "wait"

\* the engine is suspended in send of a report on the full event channel
EngineSuspended ==
    /\ engine.pc = "reporting"
    /\ SendOutcome(events.q, events.rx) = "wait"

\* C34: the application is never suspended in an operation of the handle (a
\* command on the full command channel, an asynchronous notification on a
\* full channel of the sink) while the engine is suspended in the report of
\* an event on the full event channel, which only that handle consumes
C34_NoApplicationEngineDeadlock == ~(AppSuspended /\ EngineSuspended)

\* C35: for a peer that is still in the peer table while the consumer of its
\* sink has dropped the receiving end, send_sync_notification returns
\* ChannelClogged (not Ok, not a peer-state error) and queues nothing
C35_SyncSendOnClosedSink ==
    (/\ nlast.op = "send_sync_notification"
     /\ nlast.sink # NoSink
     /\ ~sinks[nlast.sink].rx)
    => /\ nlast.res = "ChannelClogged"
       /\ sinks[nlast.sink].syncq = <<>>

C35_Witness ==
    /\ nlast.op = "send_sync_notification"
    /\ nlast.sink # NoSink
    /\ peers[nlast.peer] = nlast.sink
    /\ ~sinks[nlast.sink].rx
    /\ nlast.res = "ChannelClogged"
    /\ ClosedWaiting(nlast.peer) # {}

\* C36: the peer table holds at most one sink per peer and only poll_next
\* changes it: polling NotificationStreamOpened puts the new sink in the place
\* of whatever the peer had; polling ValidateSubstream,
\* NotificationStreamOpenFailure or NotificationReceived, and every command,
\* send and step of the engine or of a sink, leave the table as it was
C36_PeerTableFrame ==
    /\ [](peers \in [RemotePeers -> 0..MaxSinks])
    /\ [][IF PollNext
          THEN LET e == Recv(events.q)
               IN  /\ e.type = "NotificationStreamOpened" =>
                        /\ peers'[e.peer] = e.sink
                        /\ \A q \in RemotePeers \ {e.peer} : peers'[q] = peers[q]
                   /\ e.type \in {"ValidateSubstream", "NotificationStreamOpenFailure",
                                  "NotificationReceived"} => peers' = peers
          ELSE peers' = peers]_vars

C36_Witness ==
    /\ nlast.op = "poll_next"
    /\ nlast.res = "NotificationStreamOpened"
    /\ Len(sinks) = 2
    /\ peers[nlast.peer] = 2
    /\ sinks[1].peer = nlast.peer
    /\ sinks[1].rx
    /\ sinks[1].syncq # <<>>
    /\ app.seen[nlast.peer] = "NotificationStreamOpened"

\* C37: open_substream looks at the peer table only. For a peer that is not
\* in the table the call is never refused, whatever the engine holds for the
\* peer (an earlier open still Opening, a substream being validated, one
\* already Open but not yet polled): it returns Ok with one more
\* OpenSubstream{peer} at the tail of the command channel, or is suspended
\* with that command in hand. PeerAlreadyExists is returned only after
\* NotificationStreamOpened has been polled for the peer.
C37_OpenSubstreamTableOnly ==
    /\ []((nlast.op = "open_substream" /\ nlast.res = "PeerAlreadyExists") =>
             /\ peers[nlast.peer] # NoSink
             /\ app.seen[nlast.peer] = "NotificationStreamOpened")
    /\ [][(/\ nlast'.op = "open_substream"
           /\ ~nlast'.waited
           /\ peers[nlast'.peer] = NoSink) =>
             LET c == Command("OpenSubstream", nlast'.peer, "")
             IN  /\ nlast'.res \in {"Ok", "Pending"}
                 /\ (nlast'.res = "Ok" /\ commands.rx) =>
                       commands'.q = Append(commands.q, c)
                 /\ nlast'.res = "Pending" => app'.pend = c]_vars

\* C37 witness: a second open_substream for a peer whose first open is still
\* in progress in the engine has been accepted and its command is queued
C37_Witness ==
    /\ nlast.op = "open_substream"
    /\ nlast.res = "Ok"
    /\ peers[nlast.peer] = NoSink
    /\ engine.st[nlast.peer] = "Opening"
    /\ commands.q = <<Command("OpenSubstream", nlast.peer, "")>>

\* the operations of the handle that send a command
CommandOps ==
    {"open_substream", "close_substream", "set_handshake", "send_validation_result"}

\* C38: with the command channel closed behind them the command operations
\* report nothing of it: open_substream for a peer that is not in the table
\* returns Ok, close_substream, set_handshake and send_validation_result
\* return normally, none is suspended, none changes the peer table, and the
\* event channel gets no event any more
C38_DeadEngineUnreported ==
    [][~commands.rx =>
         /\ Len(events'.q) <= Len(events.q)
         /\ nlast'.op \in CommandOps =>
              /\ nlast'.res \in {"Ok", "", "PeerAlreadyExists"}
              /\ (nlast'.op = "open_substream" /\ peers[nlast'.peer] = NoSink) =>
                    nlast'.res = "Ok"
              /\ nlast'.res = "PeerAlreadyExists" =>
                    (nlast'.op = "open_substream" /\ peers[nlast'.peer] # NoSink)
              /\ peers' = peers
              /\ commands' = commands
              /\ events' = events
              /\ app'.pc = "idle"]_vars

\* C38 witness: close_substream for a peer in the table has returned after
\* the engine has exited, with nothing queued anywhere
C38_Witness ==
    /\ ~commands.rx
    /\ nlast.op = "close_substream"
    /\ nlast.res = "Ok"
    /\ peers[nlast.peer] # NoSink
    /\ commands.q = <<>>
    /\ events.q = <<>>

\* C39: the router holds no sender of its merged queue. next_event returns
\* None only when no handle of the connection is alive (held by a handler or
\* still on its way to one) and the queue is empty, and in every such state
\* of a running driver it can return None instead of waiting
C39_NoneIffHandlesDropped ==
    \A c \in DOMAIN conns :
       /\ (last.op = "next_event" /\ last.res = "None" /\ last.conn = c) =>
             /\ LiveHandles(c) = {}
             /\ ~ServiceInFlight(c)
             /\ conns[c].reqq = <<>>
       /\ (/\ conns[c].pc = "ready"
           /\ LiveHandles(c) = {}
           /\ ~ServiceInFlight(c)
           /\ conns[c].reqq = <<>>) => ENABLED NextEventNone(c)

\* C39 witness: next_event has returned None on a connection whose handles
\* have requested substreams and have all been dropped since
C39_Witness ==
    /\ last.op = "next_event"
    /\ last.res = "None"
    /\ conns[last.conn].issued # {}
    /\ \E h \in DOMAIN handles : handles[h].conn = last.conn /\ handles[h].cloned
    /\ \A h \in DOMAIN handles : handles[h].conn = last.conn => ~handles[h].alive

====
